---- MODULE Spec2Model ----
(***************************************************************************)
(* pyiris: the IRIS client driver.                                         *)
(*                                                                         *)
(* The transport (iris_socket.py, class IRISSocket) and the session        *)
(* (connect.py, class Connection) as a state machine.  A blocking call     *)
(* (readline, read, read_message, send_message) is one step up to its      *)
(* first recv/send on the socket, then one step per recv/send, so that     *)
(* every way of cutting the byte stream into chunks, and every place a     *)
(* timeout or a socket error can strike, is a behaviour of the model.      *)
(*                                                                         *)
(* Byte strings are sequences of one-character strings.                    *)
(***************************************************************************)
EXTENDS Integers, Sequences, FiniteSets, TLC

VARIABLES
    \* ---- IRISSocket fields (iris_socket.py 18-23) ----
    sock,                   \* self.socket: "none" | "open"
    timeout,                \* self.timeout (NoTimeout is None)
    remained_data,          \* self.remained_data, the carry-over buffer
    remaining_buffer_size,  \* self.remaining_buffer_size
    received_data_list,     \* self.received_data_list
    os_timeout,             \* what socket.settimeout was last given
    \* ---- the activation of the transport call in progress ----
    pc,                     \* "idle" | "readline" | "read" | "send"
    temp_data_buffer,       \* local of _readline / _read
    received_data,          \* local of _readline / _read (Unbound before 1st recv)
    remaining_bytes,        \* local of _read
    data_list,              \* local received_data_list of _read
    cmd,                    \* local of _send_message
    served_buffer_size,     \* local of _send_message (Unset before 1st send)
    calls,                  \* the transport calls made so far, with their results
    \* ---- the peer and the wire ----
    sent,                   \* every byte the server has put on the wire
    rpos,                   \* how many of them recv has handed to the client
    wsent,                  \* every byte the socket accepted from the client
    nerr,                   \* socket errors other than timeout/ECONNRESET so far
    script,                 \* what the servers answer (chosen at the start)
    whandled,               \* how many bytes of wsent the server has answered
    \* ---- Connection fields (connect.py 32-42) ----
    conn_socket,            \* self.socket: "none" | "obj" (an IRISSocket)
    cursor_,                \* self.cursor_ is set
    direct_mode_enabled,    \* self.direct_mode_enabled
    conn_timeout,           \* self.timeout
    \* ---- where the Connection's code stands ----
    step,                   \* "none": no Connection; "new": before __init__; ...
    stage,                  \* 1: first server, 2: the redirect target
    target,                 \* ip, port of _nsd_connect
    raised,                 \* the exception that left the constructor
    closes,                 \* the calls of Connection.close so far
    os_open,                \* open OS sockets the process holds
    \* ---- Cursor fields (cursor.py 29-41) ----
    is_initial_execution,   \* self.is_initial_execution, the first-fetch flag
    buffer,                 \* self.buffer, the row buffer
    has_next,               \* self.has_next
    description,            \* self.description (Unbound before the 1st execute)
    field_sep,              \* self.field_sep
    record_sep,             \* self.record_sep
    buffer_size,            \* self.buffer_size
    \* ---- where the Cursor's code stands ----
    cpc,                    \* "idle", or the blocking call the code waits in
    frame,                  \* the locals of the cursor operation in progress
    ops,                    \* the cursor operations so far, with their results
    \* ---- the Cursor's surroundings ----
    load_file,              \* the contents of the file load is given
    served                  \* row batches the server has sent for the statement

sockVars == <<sock, timeout, remained_data, remaining_buffer_size,
              received_data_list, os_timeout>>
frameVars == <<pc, temp_data_buffer, received_data, remaining_bytes, data_list,
               cmd, served_buffer_size, calls>>
wireVars == <<sent, rpos, wsent, nerr>>
serverVars == <<script, whandled>>
connVars == <<conn_socket, cursor_, direct_mode_enabled, conn_timeout, target,
              closes, os_open>>
ctlVars == <<step, stage, raised>>
cursorVars == <<is_initial_execution, buffer, has_next, description, field_sep,
                record_sep, buffer_size>>
curVars == <<cursorVars, cpc, frame, ops, load_file, served>>
appVars == <<serverVars, connVars, ctlVars, curVars>>
vars == <<sockVars, frameVars, wireVars, appVars>>

----------------------------------------------------------------------------
(* Bounds of the model. *)
MaxStream == 3      \* longest byte stream the server sends in SpecRead
MaxCalls == 3       \* transport calls a test makes
MaxRead == 2        \* largest size a test gives to read
MaxText == 3        \* longest text a test gives to send_message
MaxSends == 2       \* send_message calls a test makes
MaxErr == 1         \* socket errors other than timeout/ECONNRESET in a run
MaxOps == 4         \* cursor operations in a run
MaxRounds == 3      \* payloads one fetchall reads
MaxChunk == 2       \* largest buffer_size a test sets for load
MaxFile == 3        \* longest file a test loads

NoTimeout == 0      \* Python's None as a timeout: block for ever
SessionTimeout == 5 \* a timeout > 0 given by the caller

NL == "\n"
SP == " "
Unbound == <<"<unbound>">>  \* a local that was never assigned
Unset == -1                 \* served_buffer_size never assigned

----------------------------------------------------------------------------
(* Python's str operations on sequences of characters. *)

\* c in s
Contains(s, c) == \E i \in 1..Len(s) : s[i] = c

IndexOf(s, c) == CHOOSE i \in 1..Len(s) : s[i] = c /\ \A j \in 1..(i-1) : s[j] # c

\* s[:n] and s[n:]
Take(s, n) == SubSeq(s, 1, IF n < Len(s) THEN n ELSE Len(s))
Drop(s, n) == SubSeq(s, n + 1, Len(s))

\* s.split(c, 1)[0] and s.split(c, 1)[1], for c in s
SplitHead(s, c) == SubSeq(s, 1, IndexOf(s, c) - 1)
SplitTail(s, c) == SubSeq(s, IndexOf(s, c) + 1, Len(s))

\* "".join(list)
RECURSIVE Join(_)
Join(list) == IF list = <<>> THEN <<>> ELSE Head(list) \o Join(Tail(list))

\* all strings over alphabet A of length at most n
RECURSIVE StringsUpTo(_, _)
StringsUpTo(A, n) ==
    IF n = 0 THEN {<<>>}
    ELSE LET shorter == StringsUpTo(A, n - 1)
         IN shorter \cup {Append(s, a) : s \in shorter, a \in A}

----------------------------------------------------------------------------
(* Results of transport calls. *)

\* a normal return of value v; nl: a line terminator was consumed for it
Value(v, nl) == [exc |-> "", val |-> v, ok |-> TRUE, nl |-> nl, line |-> v]
Raised(e) == [exc |-> e, val |-> <<>>, ok |-> FALSE, nl |-> FALSE, line |-> <<>>]
Pending == Raised("pending")

\* IRISSocket.read_message after readline returned `line` (262-268)
read_message(line) ==
    LET hasSp == Contains(line, SP)
        code == IF hasSp THEN SplitHead(line, SP) ELSE line
        msg == IF hasSp THEN SplitTail(line, SP) ELSE <<>>
    IN IF code = <<>>
       THEN [exc |-> "IndexError", val |-> <<>>, ok |-> FALSE, nl |-> TRUE, line |-> line]
       ELSE [exc |-> "", val |-> msg, ok |-> code[1] = "+", nl |-> TRUE, line |-> line]

LastCall == calls[Len(calls)]

\* what the caller of the running call gets for a line that _readline returns
LineResult(opname, line, nl) ==
    IF opname = "read_message" THEN read_message(line) ELSE Value(line, nl)

\* a new entry of calls: the operation, its arguments, and the transport's
\* state when it was called
Call(opname, n, coe, text, result) ==
    [op |-> opname, size |-> n, continue_on_empty |-> coe, text |-> text,
     rd0 |-> remained_data, rpos0 |-> rpos, w0 |-> Len(wsent), ret |-> result]

\* the locals of a call are dead once it has returned or raised
DropFrame ==
    /\ pc' = "idle"
    /\ temp_data_buffer' = <<>>
    /\ received_data' = Unbound
    /\ remaining_bytes' = 0
    /\ data_list' = <<>>
    /\ cmd' = <<>>
    /\ served_buffer_size' = Unset

\* the running call returns or raises `result`
Leave(result) ==
    /\ DropFrame
    /\ calls' = [calls EXCEPT ![Len(calls)].ret = result]

\* a call returns or raises before it touches the socket
LeaveAtOnce(entry) ==
    /\ DropFrame
    /\ calls' = Append(calls, entry)

----------------------------------------------------------------------------
(* IRISSocket: the calls.  Each is the code from its entry to its first    *)
(* recv/send, or to its return when it needs none.                         *)

\* settimeout of readline/read (72-75, 94-97)
ReadTimeout(t) == IF t > 0 THEN t ELSE timeout

\* settimeout of send_message (117-125)
SendTimeout(t) ==
    IF t > 0 THEN t * 3
    ELSE IF timeout = NoTimeout THEN NoTimeout ELSE timeout * 3

\* self.socket is None: self.socket.settimeout raises AttributeError
NoSocket(opname, n, coe, text) ==
    /\ LeaveAtOnce(Call(opname, n, coe, text, Raised("AttributeError")))
    /\ UNCHANGED sockVars

\* readline (55-78) with _readline (142-151); read_message (261) calls it
\* with the defaults and parses the line it returns
readline(opname, coe, t) ==
    /\ pc = "idle"
    /\ IF sock = "none" THEN NoSocket(opname, 0, coe, <<>>)
       ELSE IF Contains(remained_data, NL)
       THEN \* 147-151: the line is split off, then remained_data is set
            \* back to the whole buffer
            /\ remained_data' = remained_data
            /\ os_timeout' = timeout
            /\ LeaveAtOnce(Call(opname, 0, coe, <<>>,
                                LineResult(opname, SplitHead(remained_data, NL), TRUE)))
            /\ UNCHANGED <<sock, timeout, remaining_buffer_size, received_data_list>>
       ELSE /\ os_timeout' = ReadTimeout(t)
            /\ pc' = "readline"
            /\ temp_data_buffer' = remained_data
            /\ received_data' = Unbound
            /\ calls' = Append(calls, Call(opname, 0, coe, <<>>, Pending))
            /\ UNCHANGED <<remaining_bytes, data_list, cmd, served_buffer_size>>
            /\ UNCHANGED <<sock, timeout, remained_data, remaining_buffer_size,
                           received_data_list>>

\* read (80-100) with _read (199-214)
read(n, t) ==
    /\ pc = "idle"
    /\ IF sock = "none" THEN NoSocket("read", n, TRUE, <<>>)
       ELSE IF remained_data = <<>>
       THEN \* 205-206
            /\ os_timeout' = timeout
            /\ LeaveAtOnce(Call("read", n, TRUE, <<>>, Value(<<>>, FALSE)))
            /\ UNCHANGED <<sock, timeout, remained_data, remaining_buffer_size,
                           received_data_list>>
       ELSE IF n <= Len(remained_data)
       THEN \* 208-210
            /\ remained_data' = Drop(remained_data, n)
            /\ os_timeout' = timeout
            /\ LeaveAtOnce(Call("read", n, TRUE, <<>>,
                                Value(Take(remained_data, n), FALSE)))
            /\ UNCHANGED <<sock, timeout, remaining_buffer_size, received_data_list>>
       ELSE \* 212-214
            /\ os_timeout' = ReadTimeout(t)
            /\ pc' = "read"
            /\ remaining_bytes' = n - Len(remained_data)
            /\ data_list' = <<remained_data>>
            /\ temp_data_buffer' = <<>>
            /\ received_data' = Unbound
            /\ calls' = Append(calls, Call("read", n, TRUE, <<>>, Pending))
            /\ UNCHANGED <<cmd, served_buffer_size>>
            /\ UNCHANGED <<sock, timeout, remained_data, remaining_buffer_size,
                           received_data_list>>

\* send_message (102-127) up to the first socket.send of _send_message
send_message(text, t) ==
    /\ pc = "idle"
    /\ IF sock = "none" THEN NoSocket("send_message", 0, TRUE, text)
       ELSE /\ os_timeout' = SendTimeout(t)
            /\ pc' = "send"
            /\ cmd' = text
            /\ served_buffer_size' = Unset
            /\ calls' = Append(calls, Call("send_message", 0, TRUE, text, Pending))
            /\ UNCHANGED <<temp_data_buffer, received_data, remaining_bytes, data_list>>
            /\ UNCHANGED <<sock, timeout, remained_data, remaining_buffer_size,
                           received_data_list>>

----------------------------------------------------------------------------
(* IRISSocket: the loops.  Each operator is the code that runs after one   *)
(* recv/send came back, up to the next one or to the return.               *)

\* _readline 166-183, with `chunk` what received_data holds after the try
_readline_loop(chunk) ==
    LET buf == temp_data_buffer \o chunk
    IN IF chunk = <<>>
       THEN \* 166-169
            /\ remained_data' = temp_data_buffer
            /\ Leave(Raised("SocketDisconnectException"))
            /\ UNCHANGED <<sock, timeout, remaining_buffer_size, received_data_list,
                           os_timeout>>
       ELSE IF Contains(chunk, NL)
       THEN \* 173-175, 180-183
            /\ remained_data' = SplitTail(buf, NL)
            /\ os_timeout' = timeout
            /\ Leave(LineResult(LastCall.op, SplitHead(buf, NL), TRUE))
            /\ UNCHANGED <<sock, timeout, remaining_buffer_size, received_data_list>>
       ELSE IF ~LastCall.continue_on_empty
       THEN \* 177-183: data is still ""
            /\ remained_data' = buf
            /\ os_timeout' = timeout
            /\ Leave(LineResult(LastCall.op, <<>>, FALSE))
            /\ UNCHANGED <<sock, timeout, remaining_buffer_size, received_data_list>>
       ELSE \* 171, back to 153
            /\ temp_data_buffer' = buf
            /\ received_data' = chunk
            /\ UNCHANGED <<pc, remaining_bytes, data_list, cmd, served_buffer_size,
                           calls>>
            /\ UNCHANGED sockVars

\* _readline 156-159 and 160-164: the exits that raise `e`
_readline_raise(e) ==
    /\ remained_data' = temp_data_buffer
    /\ Leave(Raised(e))
    /\ UNCHANGED <<sock, timeout, remaining_buffer_size, received_data_list,
                   os_timeout>>

\* _read 219-224, 225-231, 233-238: the exits that raise `e`
_read_raise(e) ==
    /\ remaining_buffer_size' = remaining_bytes
    /\ remained_data' = temp_data_buffer
    /\ received_data_list' = data_list
    /\ Leave(Raised(e))
    /\ UNCHANGED <<sock, timeout, os_timeout>>

\* _read 233-249, with `chunk` what received_data holds after the try
_read_loop(chunk) ==
    LET list == Append(data_list, chunk)
        left == remaining_bytes - Len(chunk)
    IN IF chunk = <<>> THEN _read_raise("SocketDisconnectException")
       ELSE IF left <= 0
       THEN \* 242-249
            /\ remaining_buffer_size' = 0
            /\ remained_data' = temp_data_buffer
            /\ received_data_list' = <<>>
            /\ os_timeout' = timeout
            /\ Leave(Value(Join(list), FALSE))
            /\ UNCHANGED <<sock, timeout>>
       ELSE \* 240-241, back to 215
            /\ data_list' = list
            /\ remaining_bytes' = left
            /\ received_data' = chunk
            /\ UNCHANGED <<pc, temp_data_buffer, cmd, served_buffer_size, calls>>
            /\ UNCHANGED sockVars

\* _send_message 290-296, with n what served_buffer_size holds after the try
_send_message_loop(n) ==
    IF n = Len(cmd)
    THEN \* 290-291, 127
         /\ os_timeout' = timeout
         /\ Leave(Value(<<>>, FALSE))
         /\ UNCHANGED <<sock, timeout, remained_data, remaining_buffer_size,
                        received_data_list>>
    ELSE IF n <= 0
    THEN \* 292-294
         /\ os_timeout' = NoTimeout
         /\ Leave(Raised("SocketDataSendException"))
         /\ UNCHANGED <<sock, timeout, remained_data, remaining_buffer_size,
                        received_data_list>>
    ELSE \* 296
         /\ cmd' = Drop(cmd, n)
         /\ served_buffer_size' = n
         /\ UNCHANGED <<pc, temp_data_buffer, received_data, remaining_bytes,
                        data_list, calls>>
         /\ UNCHANGED sockVars

\* the exits of _send_message that raise `e` (284-288)
_send_message_raise(e) ==
    /\ Leave(Raised(e))
    /\ UNCHANGED sockVars

----------------------------------------------------------------------------
(* The socket: what one recv or one send can do. *)

Receiving == pc \in {"readline", "read"}

\* recv hands over the next k bytes of the stream (at most the buffer size
\* asked for: remaining_bytes in _read, line 218)
RecvData ==
    /\ Receiving
    /\ \E k \in 1..(Len(sent) - rpos) :
          /\ pc = "read" => k <= remaining_bytes
          /\ rpos' = rpos + k
          /\ LET chunk == SubSeq(sent, rpos + 1, rpos + k)
             IN IF pc = "readline" THEN _readline_loop(chunk) ELSE _read_loop(chunk)
    /\ UNCHANGED <<sent, wsent, nerr>>
    /\ UNCHANGED appVars

\* recv hands over a segment of the stream: the bytes up to the end of a
\* line, or all the bytes there are (at most the buffer size asked for)
RecvSegment ==
    /\ Receiving
    /\ LET most == IF pc = "read" /\ remaining_bytes < Len(sent) - rpos
                   THEN remaining_bytes ELSE Len(sent) - rpos
       IN \E k \in 1..most :
             /\ k = most \/ sent[rpos + k] = NL
             /\ rpos' = rpos + k
             /\ LET chunk == SubSeq(sent, rpos + 1, rpos + k)
                IN IF pc = "readline" THEN _readline_loop(chunk) ELSE _read_loop(chunk)
    /\ UNCHANGED <<sent, wsent, nerr>>
    /\ UNCHANGED appVars

\* the peer has shut down after its last byte: recv returns b""
RecvEOF ==
    /\ Receiving
    /\ rpos = Len(sent)
    /\ IF pc = "readline" THEN _readline_loop(<<>>) ELSE _read_loop(<<>>)
    /\ UNCHANGED wireVars
    /\ UNCHANGED appVars

\* socket.timeout (156, 219); a socket without a timeout blocks instead
RecvTimeout ==
    /\ Receiving
    /\ os_timeout # NoTimeout
    /\ IF pc = "readline" THEN _readline_raise("SocketTimeoutException")
       ELSE _read_raise("SocketTimeoutException")
    /\ UNCHANGED wireVars
    /\ UNCHANGED appVars

\* socket.error with errno ECONNRESET (160-164, 225-231)
RecvReset ==
    /\ Receiving
    /\ IF pc = "readline" THEN _readline_raise("SocketDisconnectException")
       ELSE _read_raise("SocketDisconnectException")
    /\ UNCHANGED wireVars
    /\ UNCHANGED appVars

\* socket.error with another errno: the except clause ends without raising
\* (160-161, 225-226) and the code goes on with whatever received_data holds.
\* _readline: unbound in the first round (UnboundLocalError), the previous
\* chunk afterwards.  _read: "" (216).
RecvOSError ==
    /\ Receiving
    /\ nerr < MaxErr
    /\ nerr' = nerr + 1
    /\ IF pc = "read" THEN _read_loop(<<>>)
       ELSE IF received_data = Unbound
       THEN Leave(Raised("UnboundLocalError")) /\ UNCHANGED sockVars
       ELSE _readline_loop(received_data)
    /\ UNCHANGED <<sent, rpos, wsent>>
    /\ UNCHANGED appVars

\* socket.send accepts the first k bytes of cmd (283)
SendData ==
    /\ pc = "send"
    /\ \E k \in 0..Len(cmd) :
          /\ wsent' = wsent \o Take(cmd, k)
          /\ _send_message_loop(k)
    /\ UNCHANGED <<sent, rpos, nerr>>
    /\ UNCHANGED appVars

\* socket.send accepts all of cmd at once (283)
SendWhole ==
    /\ pc = "send"
    /\ wsent' = wsent \o cmd
    /\ _send_message_loop(Len(cmd))
    /\ UNCHANGED <<sent, rpos, nerr>>
    /\ UNCHANGED appVars

\* socket.send accepts all of cmd but its last byte (283)
SendAllButLast ==
    /\ pc = "send"
    /\ cmd # <<>>
    /\ wsent' = wsent \o Take(cmd, Len(cmd) - 1)
    /\ _send_message_loop(Len(cmd) - 1)
    /\ UNCHANGED <<sent, rpos, nerr>>
    /\ UNCHANGED appVars

\* socket.timeout (284-285)
SendTimedOut ==
    /\ pc = "send"
    /\ os_timeout # NoTimeout
    /\ _send_message_raise("SocketTimeoutException")
    /\ UNCHANGED wireVars
    /\ UNCHANGED appVars

\* socket.error with errno ECONNRESET (286-288)
SendReset ==
    /\ pc = "send"
    /\ _send_message_raise("SocketDisconnectException")
    /\ UNCHANGED wireVars
    /\ UNCHANGED appVars

\* socket.error with another errno: the except clause ends without raising
\* (286-287) and the code goes on with whatever served_buffer_size holds:
\* unbound in the first round, the previous count afterwards.
SendOSError ==
    /\ pc = "send"
    /\ nerr < MaxErr
    /\ nerr' = nerr + 1
    /\ IF served_buffer_size = Unset
       THEN _send_message_raise("UnboundLocalError")
       ELSE _send_message_loop(served_buffer_size)
    /\ UNCHANGED <<sent, rpos, wsent>>
    /\ UNCHANGED appVars

----------------------------------------------------------------------------
(* SpecRead: a caller reads a byte stream through readline, read and       *)
(* read_message, in any order, over a connected transport.                 *)

ReadAlphabet == {"+", "a", SP, NL}

NoError == [type |-> "", what |-> "", at |-> "", line |-> <<>>, msg |-> <<>>]

\* a transport on its own, with no Connection around it
NoConnection ==
    /\ whandled = 0
    /\ conn_socket = "none"
    /\ cursor_ = FALSE
    /\ direct_mode_enabled = FALSE
    /\ conn_timeout = NoTimeout
    /\ step = "none"
    /\ stage = 1
    /\ target = <<>>
    /\ raised = NoError
    /\ closes = <<>>
    /\ os_open = 1

\* the locals of a cursor operation, none of them assigned
NoFrame == [msg |-> Unbound, param |-> Unbound, tmp_list |-> <<>>,
            control_data |-> Unbound, pos |-> 0, rounds |-> 0]

\* Cursor.__init__ (35-41) and the class attributes (29-30)
NewCursor ==
    /\ is_initial_execution = FALSE
    /\ buffer = <<>>
    /\ has_next = FALSE
    /\ description = Unbound
    /\ field_sep = <<>>
    /\ record_sep = <<>>
    /\ buffer_size = 1024
    /\ cpc = "idle"
    /\ frame = NoFrame
    /\ ops = <<>>

\* no cursor is used
NoCursor ==
    /\ NewCursor
    /\ load_file = <<>>
    /\ served = 0

\* IRISSocket.__init__ (18-23) and connect (36-39)
InitSocketOnly ==
    /\ sock = "open"
    /\ remained_data = <<>>
    /\ remaining_buffer_size = 0
    /\ received_data_list = <<>>
    /\ os_timeout = NoTimeout
    /\ pc = "idle"
    /\ temp_data_buffer = <<>>
    /\ received_data = Unbound
    /\ remaining_bytes = 0
    /\ data_list = <<>>
    /\ cmd = <<>>
    /\ served_buffer_size = Unset
    /\ calls = <<>>
    /\ rpos = 0
    /\ wsent = <<>>
    /\ nerr = 0
    /\ NoConnection

InitSocket == InitSocketOnly /\ NoCursor /\ script = <<>>

InitRead ==
    /\ InitSocket
    /\ timeout \in {NoTimeout, SessionTimeout}     \* set_timeout (51)
    /\ sent \in StringsUpTo(ReadAlphabet, MaxStream)

TestReadline ==
    /\ Len(calls) < MaxCalls
    /\ \E coe \in BOOLEAN : readline("readline", coe, 0)
    /\ UNCHANGED wireVars
    /\ UNCHANGED appVars

TestRead ==
    /\ Len(calls) < MaxCalls
    /\ \E n \in 1..MaxRead : read(n, 0)
    /\ UNCHANGED wireVars
    /\ UNCHANGED appVars

TestReadMessage ==
    /\ Len(calls) < MaxCalls
    /\ readline("read_message", TRUE, 0)
    /\ UNCHANGED wireVars
    /\ UNCHANGED appVars

NextRead ==
    \/ TestReadline
    \/ TestRead
    \/ TestReadMessage
    \/ RecvData
    \/ RecvEOF
    \/ RecvTimeout
    \/ RecvReset
    \/ RecvOSError

SpecRead == InitRead /\ [][NextRead]_vars

----------------------------------------------------------------------------
(* SpecSend: a caller sends texts through send_message.                    *)

SendAlphabet == {"a", "b"}

InitSend ==
    /\ InitSocket
    /\ timeout \in {NoTimeout, SessionTimeout}
    /\ sent = <<>>

TestSend ==
    /\ Len(calls) < MaxSends
    /\ \E text \in StringsUpTo(SendAlphabet, MaxText) : send_message(text, 0)
    /\ UNCHANGED wireVars
    /\ UNCHANGED appVars

NextSend ==
    \/ TestSend
    \/ SendData
    \/ SendTimedOut
    \/ SendReset
    \/ SendOSError

SpecSend == InitSend /\ [][NextSend]_vars

----------------------------------------------------------------------------
(* What the callers of the transport were given. *)

\* the bytes a finished call handed to its caller: a line with its newline
\* put back, or the block that read returned
BytesOf(c) ==
    IF c.ret.nl THEN Append(c.ret.line, NL)
    ELSE IF c.op = "read" /\ c.ret.exc = "" THEN c.ret.val
    ELSE <<>>

RECURSIVE Delivered(_)
Delivered(cs) ==
    IF cs = <<>> THEN <<>>
    ELSE Delivered(SubSeq(cs, 1, Len(cs) - 1)) \o BytesOf(cs[Len(cs)])

TimedOut(c) == c.ret.exc = "SocketTimeoutException"
Returned(c) == c.ret.exc = ""

\* C1: after any sequence of successful readline / read / read_message
\* calls, what the callers were given (lines with their newline put back)
\* followed by the carry-over buffer is exactly what was received from the
\* stream: every byte is delivered once, in order, and no delivered byte is
\* still in remained_data.
C1_NoByteLostOrRepeated ==
    (pc = "idle" /\ \A i \in 1..Len(calls) : Returned(calls[i]))
        => Delivered(calls) \o remained_data = SubSeq(sent, 1, rpos)

\* C2: a read(n) that returns right after a read(n) that timed out returns
\* the n bytes the first call was after: the carry-over buffer of that time
\* followed by the bytes received since.
C2_ReadResumesAfterTimeout ==
    \A i \in 1..(Len(calls) - 1) :
        LET first == calls[i]
            retry == calls[i + 1]
        IN (/\ i + 1 = Len(calls) /\ pc = "idle"
            /\ first.op = "read" /\ TimedOut(first)
            /\ retry.op = "read" /\ retry.size = first.size /\ Returned(retry))
           => retry.ret.val =
                Take(first.rd0 \o SubSeq(sent, first.rpos0 + 1, rpos), first.size)

\* C3: a read(n), n > 0, that returns normally returns exactly n bytes.
C3_ReadReturnsExactlyN ==
    \A i \in 1..Len(calls) :
        (calls[i].op = "read" /\ Returned(calls[i]))
            => Len(calls[i].ret.val) = calls[i].size

\* C4: when readline raises SocketTimeoutException, remained_data holds the
\* buffer it was called with followed by every chunk received during the
\* call; and a readline that then returns a line leaves that line, its
\* newline and the new remained_data equal to that buffer followed by all
\* bytes received since.
C4_ReadlineKeepsBufferOnTimeout ==
    \A i \in 1..Len(calls) :
        LET first == calls[i]
        IN (first.op = "readline" /\ TimedOut(first) /\ pc = "idle")
           => /\ i = Len(calls)
                 => remained_data = first.rd0 \o SubSeq(sent, first.rpos0 + 1, rpos)
              /\ (/\ i + 1 = Len(calls)
                  /\ calls[i + 1].op = "readline" /\ calls[i + 1].ret.nl)
                 => Append(calls[i + 1].ret.line, NL) \o remained_data
                        = first.rd0 \o SubSeq(sent, first.rpos0 + 1, rpos)

\* C5: read_message, for every line that readline hands it, returns
\* (first character is '+', everything after the first space or "").
C5_ReadMessageParsesEveryLine ==
    \A i \in 1..Len(calls) :
        LET c == calls[i]
            line == c.ret.line
        IN (c.op = "read_message" /\ c.ret.nl)
           => /\ Returned(c)
              /\ c.ret.ok = (line # <<>> /\ line[1] = "+")
              /\ c.ret.val = IF Contains(line, SP) THEN SplitTail(line, SP) ELSE <<>>

\* the bytes the socket accepted during call i
AcceptedIn(i) ==
    SubSeq(wsent, calls[i].w0 + 1,
           IF i < Len(calls) THEN calls[i + 1].w0 ELSE Len(wsent))

\* C6: the bytes the socket accepted during a send_message are at any time a
\* prefix of the text (none resent, none out of order); they are the whole
\* text when it returns normally; and SocketDataSendException is raised only
\* with part of the text unsent.
C6_SendsAllOrRaises ==
    \A i \in 1..Len(calls) :
        LET c == calls[i]
        IN c.op = "send_message"
           => /\ AcceptedIn(i) = Take(c.text, Len(AcceptedIn(i)))
              /\ Returned(c) => AcceptedIn(i) = c.text
              /\ c.ret.exc = "SocketDataSendException"
                    => Len(AcceptedIn(i)) < Len(c.text)

----------------------------------------------------------------------------
(* Connection (connect.py).  A step is the code from one blocking call     *)
(* (TCP connect, a transport call) to the next.                            *)

GET == <<"G", "E", "T", "\r", "\n">>                \* 86
QUIT == <<"Q", "U", "I", "T", "\r", "\n">>          \* 96, 128
InvalidCommand ==                                    \* 89
    <<"I", "n", "v", "a", "l", "i", "d", " ", "C", "o", "m", "m", "a", "n", "d">>

Whitespace == {SP, "\t", "\r", NL}
Digits == {"0", "1", "2", "3", "4", "5", "6", "7", "8", "9"}

\* s.strip()
RECURSIVE Strip(_)
Strip(s) ==
    IF s = <<>> THEN s
    ELSE IF s[1] \in Whitespace THEN Strip(Tail(s))
    ELSE IF s[Len(s)] \in Whitespace THEN Strip(SubSeq(s, 1, Len(s) - 1))
    ELSE s

\* int(s) does not raise ValueError
IsInt(s) == Strip(s) # <<>> /\ \A i \in 1..Len(Strip(s)) : Strip(s)[i] \in Digits

\* the keyword parameters of IRISSocket.send_message (102-106) and
\* IRISSocket.readline (55-59)
send_message_params == {"cmd", "timeout"}
readline_params == {"continue_on_empty", "timeout"}

Error(type, what, at, line, msg) ==
    [type |-> type, what |-> what, at |-> at, line |-> line, msg |-> msg]

\* an exception of the transport passes through the Connection's code
Passed(at) == Error(LastCall.ret.exc, "", at, <<>>, <<>>)

\* the constructor ends with exception e
Raise(e) ==
    /\ step' = "raised"
    /\ raised' = e
    /\ UNCHANGED stage

\* try: ... except: pass (98-101, 128-133): what is left of exception e
SwallowNothing(e) == e
Swallow(e) == ""

\* close 128: self.socket.send_message("QUIT\r\n", timeOut=1)
\* close 130: self.socket.readline(timeOut=1)
\* what evaluating the call does: None has no such attribute; the method has
\* no parameter timeOut; otherwise the call is made
close_quit ==
    IF conn_socket = "none" THEN "AttributeError"
    ELSE IF "timeOut" \notin send_message_params THEN "TypeError"
    ELSE "call"
close_bye ==
    IF conn_socket = "none" THEN "AttributeError"
    ELSE IF "timeOut" \notin readline_params THEN "TypeError"
    ELSE "call"
\* close 132: self.socket.close()
close_socket == IF conn_socket = "none" THEN "AttributeError" ELSE ""

\* the exception that leaves Connection.close ("": none)
CloseExc ==
    IF Swallow(close_quit) # "" THEN Swallow(close_quit)
    ELSE IF Swallow(close_bye) # "" THEN Swallow(close_bye)
    ELSE Swallow(close_socket)

\* what a call of close finds and leaves
Session(cs, sk, n, w) == [conn_socket |-> cs, sock |-> sk, os_open |-> n, wsent |-> w]

\* the transport is connected and its last call went well
Writable ==
    /\ conn_socket = "obj" /\ sock = "open"
    /\ step # "connect_failed"
    /\ calls # <<>> /\ LastCall.ret.exc = ""

\* Connection.close (123-134).  Neither call of 128 and 130 binds its
\* arguments, so close does no input or output: it is one step.
\* commit (124) and Cursor.close (126, cursor.py 376-377) do nothing.
close ==
    LET reached132 == Swallow(close_quit) = "" /\ Swallow(close_bye) = ""
        \* IRISSocket.close (302-304)
        closing == reached132 /\ conn_socket = "obj" /\ sock = "open"
        newSock == IF closing THEN "none" ELSE sock
        newOpen == IF closing THEN os_open - 1 ELSE os_open
        \* 134
        newConn == IF CloseExc = "" THEN "none" ELSE conn_socket
    IN /\ close_quit # "call" /\ close_bye # "call"
       /\ sock' = newSock
       /\ os_open' = newOpen
       /\ conn_socket' = newConn
       /\ closes' = Append(closes,
              [exc |-> CloseExc,
               quit |-> close_quit,
               bye |-> close_bye,
               writable |-> Writable,
               before |-> Session(conn_socket, sock, os_open, wsent),
               after |-> Session(newConn, newSock, newOpen, wsent)])
       /\ UNCHANGED <<timeout, remained_data, remaining_buffer_size,
                      received_data_list, os_timeout>>
       /\ UNCHANGED <<cursor_, direct_mode_enabled, conn_timeout, target>>
       /\ UNCHANGED curVars

\* the exception the caller of close goes on with: close's own, if one
\* left it, else e
AfterClose(e) == IF CloseExc # "" THEN Error(CloseExc, "", "close", <<>>, <<>>) ELSE e

\* Connection.__init__ 32-45: the fields, and a fresh IRISSocket (18-23)
\* given the timeout when it is > 0 (set_timeout 51-53: no socket yet)
Connection__init__ ==
    /\ step = "new"
    /\ step' = "connect"
    /\ conn_socket' = "obj"
    /\ sock' = "none"
    /\ timeout' = IF conn_timeout > 0 THEN conn_timeout ELSE NoTimeout
    /\ remained_data' = <<>>
    /\ remaining_buffer_size' = 0
    /\ received_data_list' = <<>>
    /\ os_timeout' = NoTimeout
    /\ UNCHANGED <<cursor_, direct_mode_enabled, conn_timeout, target, closes, os_open>>
    /\ UNCHANGED <<stage, raised, frameVars, wireVars, serverVars>>
    /\ UNCHANGED curVars

\* the banner the server of this stage sends when it accepts
Banner == (IF stage = 1 THEN script.banner1 ELSE script.banner2) \o script.eol

\* _connect_server 66-73 with IRISSocket.connect (36-39): a socket is
\* created, then connect succeeds or raises
_connect_server ==
    /\ step = "connect"
    /\ conn_socket' = "obj"
    /\ IF conn_socket = "none"
       THEN \* 66-67: a fresh IRISSocket
            /\ remained_data' = <<>>
            /\ remaining_buffer_size' = 0
            /\ received_data_list' = <<>>
            /\ timeout' = IF conn_timeout > 0 THEN conn_timeout ELSE NoTimeout
       ELSE /\ UNCHANGED <<remained_data, remaining_buffer_size, received_data_list>>
            /\ timeout' = IF conn_timeout > 0 THEN conn_timeout ELSE timeout
    /\ sock' = "open"
    /\ os_timeout' = NoTimeout
    /\ os_open' = os_open + 1
    /\ rpos' = 0
    /\ wsent' = <<>>
    /\ whandled' = 0
    /\ \E connected \in BOOLEAN :
          IF connected
          THEN step' = "connected" /\ sent' = Banner
          ELSE step' = "connect_failed" /\ sent' = <<>>
    /\ UNCHANGED <<cursor_, direct_mode_enabled, conn_timeout, target, closes>>
    /\ UNCHANGED <<stage, raised, frameVars, nerr, script>>
    /\ UNCHANGED curVars

\* _connect_server 74-76: connect raised
_connect_server_except ==
    /\ step = "connect_failed"
    /\ close
    /\ Raise(AfterClose(Error("OperationalError", "connect", "_connect_server",
                              <<>>, <<>>)))
    /\ UNCHANGED <<frameVars, wireVars, serverVars>>

\* _connect_server 79: read the welcome message
_connect_server_read ==
    /\ step = "connected"
    /\ readline("read_message", TRUE, 0)
    /\ step' = "banner"
    /\ UNCHANGED <<stage, raised, wireVars, serverVars, connVars>>
    /\ UNCHANGED curVars

\* _connect_server 79-82 once read_message is back, then _connect 56-61:
\* in direct mode after the first server _nsd_connect sends GET (86);
\* otherwise _connect ends at line 61, where logger.debug(...) % (...)
\* applies % to None: TypeError
_connect_server_welcome ==
    /\ step = "banner" /\ pc = "idle"
    /\ IF LastCall.ret.exc # ""
       THEN /\ Raise(Passed("_connect_server"))
            /\ UNCHANGED <<sockVars, frameVars, wireVars, serverVars, connVars>>
       ELSE IF ~LastCall.ret.ok
       THEN /\ close
            /\ Raise(AfterClose(Error("OperationalError", "banner", "_connect_server",
                                      LastCall.ret.line, LastCall.ret.val)))
            /\ UNCHANGED <<frameVars, wireVars, serverVars>>
       ELSE IF direct_mode_enabled /\ stage = 1
       THEN /\ send_message(GET, 0)
            /\ step' = "get_send"
            /\ UNCHANGED <<stage, raised, wireVars, serverVars, connVars>>
       ELSE /\ Raise(Error("TypeError", "", "_connect", <<>>, <<>>))
            /\ UNCHANGED <<sockVars, frameVars, wireVars, serverVars, connVars>>
    /\ UNCHANGED curVars

\* _nsd_connect 86-87: GET is sent, read the reply
_nsd_connect_read ==
    /\ step = "get_send" /\ pc = "idle"
    /\ IF LastCall.ret.exc # ""
       THEN /\ Raise(Passed("_nsd_connect"))
            /\ UNCHANGED <<sockVars, frameVars, wireVars, serverVars, connVars>>
       ELSE /\ readline("read_message", TRUE, 0)
            /\ step' = "get_reply"
            /\ UNCHANGED <<stage, raised, wireVars, serverVars, connVars>>
    /\ UNCHANGED curVars

\* _nsd_connect 87-96 once the reply is back
_nsd_connect_reply ==
    /\ step = "get_reply" /\ pc = "idle"
    /\ LET r == LastCall.ret
           m == Strip(r.val)
       IN IF r.exc # ""
          THEN /\ Raise(Passed("_nsd_connect"))
               /\ UNCHANGED <<sockVars, frameVars, wireVars, serverVars, connVars>>
          ELSE IF ~r.ok
          THEN \* 88-91
               /\ Raise(Error("OperationalError",
                              IF m = InvalidCommand THEN "nsd_port_required"
                              ELSE "server_message",
                              "_nsd_connect", r.line, r.val))
               /\ UNCHANGED <<sockVars, frameVars, wireVars, serverVars, connVars>>
          ELSE IF ~Contains(m, ":")
          THEN \* 94: split(":", 1)[1]
               /\ Raise(Error("IndexError", "", "_nsd_connect", r.line, r.val))
               /\ UNCHANGED <<sockVars, frameVars, wireVars, serverVars, connVars>>
          ELSE IF ~IsInt(SplitTail(m, ":"))
          THEN \* 94: int(...)
               /\ Raise(Error("ValueError", "", "_nsd_connect", r.line, r.val))
               /\ UNCHANGED <<sockVars, frameVars, wireVars, serverVars, connVars>>
          ELSE \* 93-96
               /\ target' = <<SplitHead(m, ":"), Strip(SplitTail(m, ":"))>>
               /\ send_message(QUIT, 0)
               /\ step' = "nsd_quit"
               /\ UNCHANGED <<conn_socket, cursor_, direct_mode_enabled, conn_timeout,
                              closes, os_open>>
               /\ UNCHANGED <<stage, raised, wireVars, serverVars>>
    /\ UNCHANGED curVars

\* _nsd_connect 96-98: QUIT is sent, read the server's goodbye
_nsd_connect_bye ==
    /\ step = "nsd_quit" /\ pc = "idle"
    /\ IF LastCall.ret.exc # ""
       THEN /\ Raise(Passed("_nsd_connect"))
            /\ UNCHANGED <<sockVars, frameVars, wireVars, serverVars, connVars>>
       ELSE /\ readline("readline", TRUE, 0)
            /\ step' = "nsd_bye"
            /\ UNCHANGED <<stage, raised, wireVars, serverVars, connVars>>
    /\ UNCHANGED curVars

\* a close that leaves the OS socket open
NotReleased(sk, n) == n

\* IRISSocket.close (302-304): the open OS sockets, of n, once the
\* transport whose socket is sk was closed
Released(sk, n) == IF sk = "open" THEN n - 1 ELSE n

\* _nsd_connect 98-103: whatever readline did; IRISSocket.close (302-304);
\* self.socket = None; then _connect goes on to the target (58)
_nsd_connect_drop ==
    /\ step = "nsd_bye" /\ pc = "idle"
    /\ sock' = "none"
    /\ os_open' = Released(sock, os_open)
    /\ conn_socket' = "none"
    /\ step' = "connect"
    /\ stage' = 2
    /\ UNCHANGED <<timeout, remained_data, remaining_buffer_size,
                   received_data_list, os_timeout>>
    /\ UNCHANGED <<cursor_, direct_mode_enabled, conn_timeout, target, closes>>
    /\ UNCHANGED <<raised, frameVars, wireVars, serverVars>>
    /\ UNCHANGED curVars

\* __del__ (136-137): the constructor raised, so no caller holds the
\* object and it is collected
__del__ ==
    /\ step = "raised"
    /\ close
    /\ step' = "deleted"
    /\ UNCHANGED <<stage, raised, frameVars, wireVars, serverVars>>

----------------------------------------------------------------------------
(* The servers. *)

BYE == <<"+", "O", "K", " ", "B", "Y", "E">>
ERR == <<"-", "E", "R", "R">>

Banners == { <<"+", "O", "K">>, ERR }
GetReplies ==
    { <<"+", "O", "K", " ", "1", ":", "2">>,
      <<"+", "O", "K", " ", "1", "2">>,
      <<"+", "O", "K", " ", "1", ":", "x">>,
      <<"-">> \o InvalidCommand,
      ERR \o <<SP>> \o InvalidCommand,
      <<"-", "E", "R", "R", " ", "n", "o">> }
Eols == { <<NL>>, <<"\r", NL>> }

Unanswered == Drop(wsent, whandled)

\* the server answers the next complete command line it was sent
ServerReply ==
    /\ os_open > 0
    /\ Contains(Unanswered, NL)
    /\ LET command == Take(Unanswered, IndexOf(Unanswered, NL))
           reply == IF command = GET THEN script.get_reply
                    ELSE IF command = QUIT THEN BYE
                    ELSE ERR
       IN /\ sent' = sent \o reply \o script.eol
          /\ whandled' = whandled + Len(command)
    /\ UNCHANGED <<rpos, wsent, nerr, script>>
    /\ UNCHANGED <<sockVars, frameVars, connVars, ctlVars>>
    /\ UNCHANGED curVars

----------------------------------------------------------------------------
(* SpecConn: a Connection is constructed, and collected when its           *)
(* constructor has raised.                                                 *)

InitConn ==
    /\ step = "new"
    /\ stage = 1
    /\ direct_mode_enabled \in BOOLEAN
    /\ conn_timeout \in {0, SessionTimeout}
    /\ script \in [banner1 : Banners, get_reply : GetReplies, banner2 : Banners,
                   eol : Eols]
    /\ conn_socket = "none"
    /\ cursor_ = FALSE
    /\ target = <<>>
    /\ raised = NoError
    /\ closes = <<>>
    /\ os_open = 0
    /\ whandled = 0
    /\ sock = "none"
    /\ timeout = NoTimeout
    /\ remained_data = <<>>
    /\ remaining_buffer_size = 0
    /\ received_data_list = <<>>
    /\ os_timeout = NoTimeout
    /\ pc = "idle"
    /\ temp_data_buffer = <<>>
    /\ received_data = Unbound
    /\ remaining_bytes = 0
    /\ data_list = <<>>
    /\ cmd = <<>>
    /\ served_buffer_size = Unset
    /\ calls = <<>>
    /\ sent = <<>>
    /\ rpos = 0
    /\ wsent = <<>>
    /\ nerr = 0
    /\ NoCursor

NextConn ==
    \/ Connection__init__
    \/ _connect_server
    \/ _connect_server_except
    \/ _connect_server_read
    \/ _connect_server_welcome
    \/ _nsd_connect_read
    \/ _nsd_connect_reply
    \/ _nsd_connect_bye
    \/ _nsd_connect_drop
    \/ __del__
    \/ ServerReply
    \/ RecvData
    \/ RecvEOF
    \/ RecvTimeout
    \/ RecvReset
    \/ RecvOSError
    \/ SendData
    \/ SendTimedOut
    \/ SendReset
    \/ SendOSError

SpecConn == InitConn /\ [][NextConn]_vars

----------------------------------------------------------------------------
(* What Connection.close and the constructor do. *)

\* C7: no call of Connection.close raises; after it the session holds no
\* transport; and a close after the first leaves the session and the wire
\* as it found them: nothing is closed twice and nothing is sent.
C7_CloseNeverRaisesAndIsIdempotent ==
    /\ \A i \in 1..Len(closes) :
          /\ closes[i].exc = ""
          /\ closes[i].after.conn_socket = "none"
          /\ closes[i].after.sock = "none"
          /\ i > 1 => closes[i].after = closes[i].before
    /\ closes # <<>> => conn_socket = "none"

\* close was called on an open transport, and once more after that
C7_Witness ==
    /\ Len(closes) = 2
    /\ closes[1].writable
    /\ closes[1].before.sock = "open"
    /\ closes[2].before.conn_socket = "none"

\* C8: a close that finds the transport open and writable makes the two
\* calls (QUIT is sent, its reply is read with a timeout of 1) and the
\* socket has accepted QUIT when close is over.
C8_CloseSendsQuit ==
    \A i \in 1..Len(closes) :
        closes[i].writable
            => /\ closes[i].quit = "call"
               /\ closes[i].bye = "call"
               /\ Drop(closes[i].after.wsent, Len(closes[i].before.wsent)) = QUIT

\* C9: when the constructor has raised a connection error
\* (OperationalError), the process holds no open socket.
C9_ConnectionErrorClosesSocket ==
    (step = "raised" /\ raised.type = "OperationalError")
        => os_open = 0 /\ sock = "none"

\* C10: when _nsd_connect raises for the reply line "-Invalid Command", it
\* raises the error that says the NSD port is required.
C10_InvalidCommandIsDistinguished ==
    (/\ step = "raised"
     /\ raised.at = "_nsd_connect"
     /\ raised.type = "OperationalError"
     /\ Strip(raised.line) = <<"-">> \o InvalidCommand)
        => raised.what = "nsd_port_required"

\* the last thing the constructor did was to read a success banner from the
\* server it was to end up with
GoodHandshake ==
    /\ calls # <<>>
    /\ LastCall.op = "read_message" /\ Returned(LastCall) /\ LastCall.ret.ok
    /\ direct_mode_enabled => stage = 2

\* C11: when the constructor is over after a good handshake, it has not
\* raised and the session holds an open transport.
C11_ConstructorCompletes ==
    (step = "raised" /\ GoodHandshake)
        => raised = NoError /\ conn_socket = "obj" /\ sock = "open"

----------------------------------------------------------------------------
(* Cursor (cursor.py): more of Python's str, int and json. *)

CRLF == <<"\r", NL>>
LowerCase == <<"a", "b", "c", "d", "e", "f", "g", "h", "i", "j", "k", "l", "m",
               "n", "o", "p", "q", "r", "s", "t", "u", "v", "w", "x", "y", "z">>
UpperCase == <<"A", "B", "C", "D", "E", "F", "G", "H", "I", "J", "K", "L", "M",
               "N", "O", "P", "Q", "R", "S", "T", "U", "V", "W", "X", "Y", "Z">>
DecimalDigits == <<"0", "1", "2", "3", "4", "5", "6", "7", "8", "9">>

\* s.upper()
Upper(s) ==
    [i \in 1..Len(s) |->
        IF \E k \in 1..Len(LowerCase) : LowerCase[k] = s[i]
        THEN UpperCase[CHOOSE k \in 1..Len(LowerCase) : LowerCase[k] = s[i]]
        ELSE s[i]]

\* s.startswith(p), s.endswith(p)
StartsWith(s, p) == Len(s) >= Len(p) /\ SubSeq(s, 1, Len(p)) = p
EndsWith(s, p) == Len(s) >= Len(p) /\ SubSeq(s, Len(s) - Len(p) + 1, Len(s)) = p

\* str(n) for n >= 0
RECURSIVE ToStr(_)
ToStr(n) ==
    IF n < 10 THEN <<DecimalDigits[n + 1]>>
    ELSE ToStr(n \div 10) \o <<DecimalDigits[(n % 10) + 1]>>

\* int(s) for a string of digits
RECURSIVE ToInt(_)
ToInt(s) ==
    IF s = <<>> THEN 0
    ELSE 10 * ToInt(SubSeq(s, 1, Len(s) - 1))
         + (CHOOSE d \in 0..9 : DecimalDigits[d + 1] = s[Len(s)])

\* s.split(c)
RECURSIVE Split(_, _)
Split(s, c) ==
    IF Contains(s, c) THEN <<SplitHead(s, c)>> \o Split(SplitTail(s, c), c)
    ELSE <<s>>

\* sep.join(list)
RECURSIVE JoinWith(_, _)
JoinWith(sep, list) ==
    IF list = <<>> THEN <<>>
    ELSE IF Len(list) = 1 THEN list[1]
    ELSE list[1] \o sep \o JoinWith(sep, Tail(list))

\* The JSON texts of the model: an array whose items are one character
\* each, an item standing for a row (a list of column values) or for a list
\* of column names or types.
JsonItems == {"1", "2", "3", "n", "t"}

\* json.loads(s) does not raise JSONDecodeError
IsJson(s) ==
    /\ Len(s) >= 2 /\ s[1] = "[" /\ s[Len(s)] = "]"
    /\ LET body == SubSeq(s, 2, Len(s) - 1)
       IN \/ body = <<>>
          \/ /\ Len(body) % 2 = 1
             /\ \A i \in 1..Len(body) :
                   IF i % 2 = 1 THEN body[i] \in JsonItems ELSE body[i] = ","

\* json.loads(s), the list of the array's items
json_loads(s) == [i \in 1..((Len(s) - 1) \div 2) |-> s[2 * i]]

\* json.dumps of such a list
json_dumps(items) ==
    <<"[">> \o JoinWith(<<",">>, [i \in 1..Len(items) |-> <<items[i]>>]) \o <<"]">>

----------------------------------------------------------------------------
(* Cursor: the commands. *)

EXECUTE2 == <<"E", "X", "E", "C", "U", "T", "E", "2">>        \* 214
EXECUTE == <<"E", "X", "E", "C", "U", "T", "E">>              \* 247
METADATA == <<"M", "E", "T", "A", "D", "A", "T", "A">>        \* 141
CONT == <<"C", "O", "N", "T">>                                \* 260
CONT_ALL == <<"C", "O", "N", "T", " ", "A", "L", "L">>        \* 285, 303
OK == <<"+", "O", "K">>                                       \* 268, 297

\* _has_semicolon 157
TARGET_COMMANDS ==
    { <<"S", "E", "L", "E", "C", "T">>, <<"U", "P", "D", "A", "T", "E">>,
      <<"I", "N", "S", "E", "R", "T">>, <<"D", "E", "L", "E", "T", "E">>,
      <<"C", "R", "E", "A", "T", "E">>, <<"D", "R", "O", "P">>,
      <<"A", "L", "T", "E", "R">>, <<"/", "*", "+">> }

\* what _has_semicolon compares: the text as given
ExactText(sql) == sql
\* what _has_semicolon compares: sql.upper().strip() (158)
Normalized(sql) == Strip(Upper(sql))

\* _has_semicolon (156-161)
_has_semicolon(sql) ==
    ~ /\ \E kw \in TARGET_COMMANDS : StartsWith(Normalized(sql), kw)
      /\ ~EndsWith(Normalized(sql), <<";">>)

\* execute 210-211, execute1 243-244
Terminated(operation) ==
    IF ~_has_semicolon(operation) THEN operation \o <<";">> ELSE operation

\* f"{command} {sql_size}\r\n{operation}" (213-214, 245-247)
Statement(command, operation) ==
    command \o <<SP>> \o ToStr(Len(operation)) \o CRLF \o operation

----------------------------------------------------------------------------
(* Cursor: the operations.  As for the Connection, a step is the code from *)
(* one transport call to the next; an operation is over when cpc is back   *)
(* to "idle".                                                              *)

outerVars == <<wireVars, serverVars, connVars, ctlVars, load_file, served>>

\* what an operation returns or raises
Outcome(e, v) == [exc |-> e, val |-> v]

\* what an operation did on the transport: its calls, with what each was
\* given and how it ended
Trace(cs) ==
    [i \in 1..Len(cs) |-> [op |-> cs[i].op, text |-> cs[i].text,
                           exc |-> cs[i].ret.exc]]

\* an entry of ops: the operation, its argument, the cursor's state when it
\* was called, what it returned or raised, and its transport calls
Op(name, arg, result) ==
    [name |-> name, arg |-> arg, flag0 |-> is_initial_execution,
     buffer0 |-> buffer, description0 |-> description, ret |-> result,
     trace |-> <<>>]

\* a cursor operation is called
Begin(name, arg) == ops' = Append(ops, Op(name, arg, Outcome("pending", <<>>)))

\* a cursor operation is called and returns v without a transport call
Returns(name, arg, v) == ops' = Append(ops, Op(name, arg, Outcome("", v)))

\* it returns v, or raises e; calls starts anew for the next operation
End(e, v) ==
    /\ ops' = [ops EXCEPT ![Len(ops)].ret = Outcome(e, v),
                          ![Len(ops)].trace = Trace(calls)]
    /\ calls' = <<>>
    /\ cpc' = "idle"
    /\ frame' = NoFrame

\* the operation is over without another transport call
Over(e, v) ==
    /\ End(e, v)
    /\ UNCHANGED <<pc, temp_data_buffer, received_data, remaining_bytes,
                   data_list, cmd, served_buffer_size>>
    /\ UNCHANGED sockVars

\* the transport call the code waited in is back
Back(at) == cpc = at /\ pc = "idle"

\* that call raised: the exception passes through the cursor's code
Failed == LastCall.ret.exc # ""
PassOn ==
    /\ Over(LastCall.ret.exc, <<>>)
    /\ UNCHANGED cursorVars

\* _get_description 141: send METADATA
_get_description ==
    /\ send_message(METADATA \o CRLF, 0)
    /\ cpc' = "metadata_sent"

\* execute (206-214): the terminator, then EXECUTE2 is sent
execute(operation) ==
    /\ cpc = "idle" /\ pc = "idle"
    /\ Begin("execute", operation)
    /\ has_next' = FALSE
    /\ send_message(Statement(EXECUTE2, Terminated(operation)), 0)
    /\ cpc' = "execute_sent"
    /\ UNCHANGED <<is_initial_execution, buffer, description, field_sep, record_sep,
                   buffer_size, frame>>
    /\ UNCHANGED outerVars

\* execute 214-216: read the status of EXECUTE2
execute_read ==
    /\ Back("execute_sent")
    /\ IF Failed THEN PassOn
       ELSE /\ readline("read_message", TRUE, 0)
            /\ cpc' = "execute_status"
            /\ UNCHANGED <<cursorVars, frame, ops>>
    /\ UNCHANGED outerVars

\* execute 216-220: the status is back
execute_status ==
    /\ Back("execute_status")
    /\ IF Failed THEN PassOn
       ELSE IF ~LastCall.ret.ok
       THEN /\ Over("ProgrammingError", LastCall.ret.val)
            /\ UNCHANGED cursorVars
       ELSE /\ frame' = [frame EXCEPT !.msg = LastCall.ret.val]
            /\ _get_description
            /\ UNCHANGED <<cursorVars, ops>>
    /\ UNCHANGED outerVars

\* execute1 (240-247): EXECUTE is sent
execute1(operation) ==
    /\ cpc = "idle" /\ pc = "idle"
    /\ Begin("execute1", operation)
    /\ has_next' = FALSE
    /\ is_initial_execution' = FALSE
    /\ send_message(Statement(EXECUTE, Terminated(operation)), 0)
    /\ cpc' = "execute1_sent"
    /\ UNCHANGED <<buffer, description, field_sep, record_sep, buffer_size, frame>>
    /\ UNCHANGED outerVars

\* execute1 248: self.is_initial_execution = True
MarkInitialExecution == is_initial_execution' = TRUE

\* execute1 247-249: the flag is set and METADATA is sent
execute1_sent ==
    /\ Back("execute1_sent")
    /\ IF Failed THEN PassOn
       ELSE /\ MarkInitialExecution
            /\ _get_description
            /\ UNCHANGED <<buffer, has_next, description, field_sep, record_sep,
                           buffer_size, frame, ops>>
    /\ UNCHANGED outerVars

\* _get_description 141-142: read the status of METADATA
_get_description_read ==
    /\ Back("metadata_sent")
    /\ IF Failed THEN PassOn
       ELSE /\ readline("read_message", TRUE, 0)
            /\ cpc' = "metadata_status"
            /\ UNCHANGED <<cursorVars, frame, ops>>
    /\ UNCHANGED outerVars

\* execute 220-226 and execute1 249-253 once _get_description returned meta
described(meta) ==
    /\ description' = meta
    /\ IF ops[Len(ops)].name = "execute"
       THEN /\ is_initial_execution' = FALSE
            /\ Over("", frame.msg)
       ELSE /\ UNCHANGED is_initial_execution
            /\ Over("", <<>>)
    /\ UNCHANGED <<buffer, has_next, field_sep, record_sep, buffer_size>>

\* _get_description 142-149: the status is back; read the payload
_get_description_status ==
    /\ Back("metadata_status")
    /\ IF Failed THEN PassOn
       ELSE IF ~LastCall.ret.ok
       THEN /\ Over("InternalError", LastCall.ret.val)
            /\ UNCHANGED cursorVars
       ELSE IF ~IsInt(LastCall.ret.val)
       THEN \* 146: int(msg.strip())
            /\ Over("ValueError", <<>>)
            /\ UNCHANGED cursorVars
       ELSE IF ToInt(Strip(LastCall.ret.val)) = 0
       THEN \* 148, 153
            /\ described(<<>>)
       ELSE /\ read(ToInt(Strip(LastCall.ret.val)), 0)
            /\ cpc' = "metadata_payload"
            /\ UNCHANGED <<cursorVars, frame, ops>>
    /\ UNCHANGED outerVars

\* _get_description 149-153: the payload is back; [names, types] is
\* unpacked and zipped
_get_description_payload ==
    /\ Back("metadata_payload")
    /\ IF Failed THEN PassOn
       ELSE IF ~IsJson(LastCall.ret.val)
       THEN /\ Over("JSONDecodeError", <<>>)
            /\ UNCHANGED cursorVars
       ELSE IF Len(json_loads(LastCall.ret.val)) # 2
       THEN \* 150: the unpacking
            /\ Over("ValueError", <<>>)
            /\ UNCHANGED cursorVars
       ELSE /\ described(<<json_loads(LastCall.ret.val)>>)
    /\ UNCHANGED outerVars

\* _read_data 265-266, fetchall 292-295: the line m is split at its first
\* space; when it has none the unpacking fails and only tag is assigned
TagOf(m) == IF Contains(m, SP) THEN SplitHead(m, SP) ELSE m
ParamOf(m, param) == IF Contains(m, SP) THEN SplitTail(m, SP) ELSE param

\* _read_data 268-274, fetchall 297-302: what the line asks for
\*   "done": +OK; "raise": an exception; "read": a payload of so many bytes
Asked(tag, param) ==
    IF tag = OK THEN [do |-> "done"]
    ELSE IF tag = <<>> THEN [do |-> "raise", exc |-> "IndexError", val |-> <<>>]
    ELSE IF param = Unbound
    THEN [do |-> "raise", exc |-> "UnboundLocalError", val |-> <<>>]
    ELSE IF tag[1] = "-"
    THEN [do |-> "raise", exc |-> "OperationalError", val |-> param]
    ELSE IF ~IsInt(param) THEN [do |-> "raise", exc |-> "ValueError", val |-> <<>>]
    ELSE [do |-> "read", size |-> ToInt(Strip(param))]

\* fetchone (311-315) with _read_data 259-264
fetchone ==
    /\ cpc = "idle" /\ pc = "idle"
    /\ IF Len(buffer) # 0
       THEN \* 314-315
            /\ buffer' = Tail(buffer)
            /\ Returns("fetchone", <<>>, <<Head(buffer)>>)
            /\ UNCHANGED <<cpc, frame, sockVars, frameVars>>
            /\ UNCHANGED is_initial_execution
       ELSE IF ~is_initial_execution
       THEN \* 260
            /\ Begin("fetchone", <<>>)
            /\ send_message(CONT \o CRLF, 0)
            /\ cpc' = "cont_sent"
            /\ UNCHANGED <<is_initial_execution, buffer, frame>>
       ELSE \* 262-264
            /\ Begin("fetchone", <<>>)
            /\ is_initial_execution' = FALSE
            /\ readline("readline", TRUE, 0)
            /\ cpc' = "data_line"
            /\ UNCHANGED <<buffer, frame>>
    /\ UNCHANGED <<has_next, description, field_sep, record_sep, buffer_size>>
    /\ UNCHANGED outerVars

\* _read_data 260-264: CONT is sent, read the line
_read_data_read ==
    /\ Back("cont_sent")
    /\ IF Failed THEN PassOn
       ELSE /\ readline("readline", TRUE, 0)
            /\ cpc' = "data_line"
            /\ UNCHANGED <<cursorVars, frame, ops>>
    /\ UNCHANGED outerVars

\* _read_data 264-274: the line is back
_read_data_line ==
    /\ Back("data_line")
    /\ IF Failed THEN PassOn
       ELSE LET m == Strip(LastCall.ret.val)
                ask == Asked(TagOf(m), ParamOf(m, Unbound))
            IN IF ask.do = "done"
               THEN \* 268-270
                    /\ has_next' = TRUE
                    /\ Over("StopIteration", <<>>)
                    /\ UNCHANGED <<is_initial_execution, buffer, description,
                                   field_sep, record_sep, buffer_size>>
               ELSE IF ask.do = "raise"
               THEN /\ Over(ask.exc, ask.val)
                    /\ UNCHANGED cursorVars
               ELSE /\ read(ask.size, 0)
                    /\ cpc' = "data_payload"
                    /\ UNCHANGED <<cursorVars, frame, ops>>
    /\ UNCHANGED outerVars

\* _read_data 274-278, then fetchone 314-315: the payload is back
_read_data_payload ==
    /\ Back("data_payload")
    /\ IF Failed THEN PassOn
       ELSE IF ~IsJson(LastCall.ret.val)
       THEN /\ Over("JSONDecodeError", <<>>)
            /\ UNCHANGED cursorVars
       ELSE LET rows == json_loads(LastCall.ret.val)
            IN /\ IF rows = <<>>
                  THEN \* 314: pop from an empty list
                       /\ buffer' = <<>>
                       /\ Over("IndexError", <<>>)
                  ELSE /\ buffer' = Tail(rows)
                       /\ Over("", <<Head(rows)>>)
               /\ UNCHANGED <<is_initial_execution, has_next, description,
                              field_sep, record_sep, buffer_size>>
    /\ UNCHANGED outerVars

\* fetchall (281-291)
fetchall ==
    /\ cpc = "idle" /\ pc = "idle"
    /\ Begin("fetchall", <<>>)
    /\ IF ~is_initial_execution
       THEN \* 285
            /\ send_message(CONT_ALL \o CRLF, 0)
            /\ cpc' = "cont_all_sent"
            /\ UNCHANGED is_initial_execution
       ELSE \* 287-291
            /\ is_initial_execution' = FALSE
            /\ readline("readline", TRUE, 0)
            /\ cpc' = "all_line"
    /\ UNCHANGED <<buffer, has_next, description, field_sep, record_sep,
                   buffer_size, frame>>
    /\ UNCHANGED outerVars

\* fetchall 285-291, 303: CONT ALL is sent, read the line
fetchall_read ==
    /\ Back("cont_all_sent")
    /\ IF Failed THEN PassOn
       ELSE /\ readline("readline", TRUE, 0)
            /\ cpc' = "all_line"
            /\ UNCHANGED <<cursorVars, frame, ops>>
    /\ UNCHANGED outerVars

\* fetchall 291-302, 305-308: the line is back; param keeps the value of
\* the round before when the line has no space
fetchall_line ==
    /\ Back("all_line")
    /\ IF Failed THEN PassOn
       ELSE LET m == Strip(LastCall.ret.val)
                param == ParamOf(m, frame.param)
                ask == Asked(TagOf(m), param)
            IN /\ IF ask.do = "done" THEN Over("", frame.tmp_list)
                  ELSE IF ask.do = "raise" THEN Over(ask.exc, ask.val)
                  ELSE /\ read(ask.size, 0)
                       /\ cpc' = "all_payload"
                       /\ frame' = [frame EXCEPT !.param = param]
                       /\ UNCHANGED ops
               /\ UNCHANGED cursorVars
    /\ UNCHANGED outerVars

\* fetchall 302-303: the payload is back; its rows are appended and
\* CONT ALL is sent again
fetchall_payload ==
    /\ Back("all_payload")
    /\ frame.rounds < MaxRounds
    /\ IF Failed THEN PassOn
       ELSE IF ~IsJson(LastCall.ret.val)
       THEN /\ Over("JSONDecodeError", <<>>)
            /\ UNCHANGED cursorVars
       ELSE /\ frame' = [frame EXCEPT
                           !.tmp_list = @ \o json_loads(LastCall.ret.val),
                           !.rounds = @ + 1]
            /\ send_message(CONT_ALL \o CRLF, 0)
            /\ cpc' = "cont_all_sent"
            /\ UNCHANGED <<cursorVars, ops>>
    /\ UNCHANGED outerVars

----------------------------------------------------------------------------
(* Cursor.load (318-373) with the separator setters (101-134).  The file   *)
(* at load_file_path is load_file; it is read in pieces of buffer_size.    *)

NULL == <<"N", "U", "L", "L">>                                     \* 350
IMPORT == <<"I", "M", "P", "O", "R", "T">>                           \* 357
SET_FIELD_SEP == <<"S", "E", "T", "_", "F", "I", "E", "L", "D", "_", "S", "E", "P">>
SET_RECORD_SEP == <<"S", "E", "T", "_", "R", "E", "C", "O", "R", "D", "_", "S", "E", "P">>

\* the contents of a path at which there is no file
Missing == <<"<missing>">>

\* base64.b64encode(sep.encode('utf-8')).decode('utf-8') for the
\* separators in use: ",", "\n" and "|"
b64encode(sep) ==
    IF sep = <<",">> THEN <<"L", "A", "=", "=">>
    ELSE IF sep = <<NL>> THEN <<"C", "g", "=", "=">>
    ELSE <<"f", "A", "=", "=">>

\* LoadOption(skip_rows=skip_rows, use_zlib=use_zlib) (331-334, load.py 4-9)
LoadOption(skip_rows, use_zlib) ==
    [validate_csv |-> FALSE, validate_unique |-> FALSE,
     validate_unique_by_name |-> FALSE, use_zlib |-> use_zlib,
     skip_rows |-> skip_rows]

\* LoadOption.__str__ (load.py 11-20): json.dumps of the five fields; a key
\* and a boolean are one symbol each here
Bool(b) == IF b THEN "true" ELSE "false"
LoadOption__str__(o) ==
    <<"{", "is_csv_dat", ":", Bool(o.validate_csv), ",",
      "is_unique_load", ":", Bool(o.validate_unique), ",",
      "unique_load_name", ":", Bool(o.validate_unique_by_name), ",",
      "use_zlib", ":", Bool(o.use_zlib), ",", "skip_rows", ":">>
        \o ToStr(o.skip_rows) \o <<"}">>

\* control_data (346-351) with rsep what self.record_sep holds; columns is
\* [none |-> it is None, names |-> the list]
ControlData(rsep, columns) ==
    IF ~columns.none /\ columns.names # <<>>
    THEN JoinWith(rsep, columns.names)
    ELSE NULL

\* send_msg of line 357
ImportHeader(table, key, partition, ctl_size, data_size, load_option) ==
    IMPORT \o <<SP>> \o table \o <<",">> \o key \o <<",">> \o partition \o <<",">>
        \o ToStr(ctl_size) \o <<",">> \o ToStr(data_size) \o <<",">>
        \o LoadOption__str__(load_option) \o CRLF

\* a cursor operation is called and raises e without a transport call
Raises(name, arg, e, v) == ops' = Append(ops, Op(name, arg, Outcome(e, v)))

\* the arguments of the operation in progress
Args == ops[Len(ops)].arg

\* set_buffer_size (73-74)
set_buffer_size(size) ==
    /\ cpc = "idle" /\ pc = "idle"
    /\ buffer_size' = size
    /\ UNCHANGED <<is_initial_execution, buffer, has_next, description, field_sep,
                   record_sep, cpc, frame, ops>>
    /\ UNCHANGED <<sockVars, frameVars, outerVars>>

\* load 318-343 and _set_field_sep 107-109: the checks, then SET_FIELD_SEP
\* is sent
load(table, columns, key, partition, sep, rsep, skip_rows, use_zlib) ==
    LET arg == [table |-> table, columns |-> columns, key |-> key,
                partition |-> partition, sep |-> sep, record_sep |-> rsep,
                load_option |-> LoadOption(skip_rows, use_zlib)]
    IN /\ cpc = "idle" /\ pc = "idle"
       /\ IF load_file = Missing
          THEN \* 336-337
               /\ Raises("load", arg, "DataError", <<>>)
               /\ UNCHANGED <<cpc, sockVars, frameVars>>
          ELSE IF ~arg.load_option.validate_csv /\ columns.none
          THEN \* 340-341
               /\ Raises("load", arg, "DataError", <<>>)
               /\ UNCHANGED <<cpc, sockVars, frameVars>>
          ELSE /\ Begin("load", arg)
               /\ send_message(SET_FIELD_SEP \o <<SP>> \o b64encode(sep) \o CRLF, 0)
               /\ cpc' = "field_sep_sent"
       /\ UNCHANGED <<cursorVars, frame>>
       /\ UNCHANGED outerVars

\* _set_field_sep 109-110: read the status
_set_field_sep_read ==
    /\ Back("field_sep_sent")
    /\ IF Failed THEN PassOn
       ELSE /\ readline("read_message", TRUE, 0)
            /\ cpc' = "field_sep_status"
            /\ UNCHANGED <<cursorVars, frame, ops>>
    /\ UNCHANGED outerVars

\* a status that never counts as a failure
is_success_always == TRUE

\* _set_field_sep 109-110, _set_record_sep 128-129: is_success of the status
\* that read_message returned
is_success == LastCall.ret.ok

\* _set_field_sep 110-114, then _set_record_sep 125-127
_set_field_sep_status ==
    /\ Back("field_sep_status")
    /\ IF Failed THEN PassOn
       ELSE IF ~is_success
       THEN /\ Over("DataError", LastCall.ret.val)
            /\ UNCHANGED cursorVars
       ELSE /\ field_sep' = Args.sep
            /\ send_message(SET_RECORD_SEP \o <<SP>> \o b64encode(Args.record_sep)
                                \o CRLF, 0)
            /\ cpc' = "record_sep_sent"
            /\ UNCHANGED <<is_initial_execution, buffer, has_next, description,
                           record_sep, buffer_size, frame, ops>>
    /\ UNCHANGED outerVars

\* _set_record_sep 127-128: read the status
_set_record_sep_read ==
    /\ Back("record_sep_sent")
    /\ IF Failed THEN PassOn
       ELSE /\ readline("read_message", TRUE, 0)
            /\ cpc' = "record_sep_status"
            /\ UNCHANGED <<cursorVars, frame, ops>>
    /\ UNCHANGED outerVars

\* _set_record_sep 128-131, then load 346-359: the control data and the
\* IMPORT header, which is sent
_set_record_sep_status ==
    /\ Back("record_sep_status")
    /\ IF Failed THEN PassOn
       ELSE IF ~is_success
       THEN /\ Over("DataError", LastCall.ret.val)
            /\ UNCHANGED cursorVars
       ELSE /\ record_sep' = Args.record_sep
            /\ frame' = [frame EXCEPT !.control_data = ControlData(Args.record_sep, Args.columns)]
            /\ send_message(ImportHeader(Args.table, Args.key, Args.partition,
                                         Len(ControlData(Args.record_sep, Args.columns)),
                                         Len(load_file), Args.load_option), 0)
            /\ cpc' = "import_sent"
            /\ UNCHANGED <<is_initial_execution, buffer, has_next, description,
                           field_sep, buffer_size, ops>>
    /\ UNCHANGED outerVars

\* load 359-360: the control data is sent
load_control ==
    /\ Back("import_sent")
    /\ IF Failed THEN PassOn
       ELSE /\ send_message(frame.control_data, 0)
            /\ cpc' = "control_sent"
            /\ UNCHANGED <<cursorVars, frame, ops>>
    /\ UNCHANGED outerVars

\* load_file.read(self.buffer_size) at position pos (365)
buffer_data(pos) ==
    SubSeq(load_file, pos + 1,
           IF pos + buffer_size < Len(load_file) THEN pos + buffer_size
           ELSE Len(load_file))

\* load 362-371: the next piece of the file is sent, or at its end the
\* status is read
load_chunk ==
    /\ Back("control_sent") \/ Back("chunk_sent")
    /\ IF Failed THEN PassOn
       ELSE IF buffer_data(frame.pos) = <<>>
       THEN /\ readline("read_message", TRUE, 0)
            /\ cpc' = "load_status"
            /\ UNCHANGED <<cursorVars, frame, ops>>
       ELSE /\ send_message(buffer_data(frame.pos), 0)
            /\ frame' = [frame EXCEPT !.pos = @ + Len(buffer_data(frame.pos))]
            /\ cpc' = "chunk_sent"
            /\ UNCHANGED <<cursorVars, ops>>
    /\ UNCHANGED outerVars

\* load 371-373: the status is back
load_status ==
    /\ Back("load_status")
    /\ IF Failed THEN PassOn
       ELSE /\ IF ~LastCall.ret.ok THEN Over("ProgrammingError", LastCall.ret.val)
               ELSE Over("", <<>>)
            /\ UNCHANGED cursorVars
    /\ UNCHANGED outerVars

----------------------------------------------------------------------------
(* The server of a cursor. *)

DATA == <<"+", "D", "A", "T", "A">>

\* a status line that announces a payload, and the payload
Framed(tag, payload) == tag \o <<SP>> \o ToStr(Len(payload)) \o CRLF \o payload

\* the command line at the head of what the server has not answered yet
CommandLine == Take(Unanswered, IndexOf(Unanswered, NL))
CommandName == TagOf(Strip(CommandLine))
CommandArg == ParamOf(Strip(CommandLine), <<>>)

\* the bytes that follow the command line and belong to the command
CommandBody ==
    IF CommandName \in {EXECUTE, EXECUTE2} /\ IsInt(CommandArg)
    THEN ToInt(Strip(CommandArg))
    ELSE IF CommandName = IMPORT /\ Len(Split(CommandArg, ",")) >= 5
    THEN ToInt(Split(CommandArg, ",")[4]) + ToInt(Split(CommandArg, ",")[5])
    ELSE 0

\* the text that follows the command line
CommandText == SubSeq(Unanswered, Len(CommandLine) + 1, Len(CommandLine) + CommandBody)

\* the statements the server runs; it refuses every other one
Runs(statement) ==
    \/ StartsWith(statement, <<"S", "E", "L", "E", "C", "T">>)
    \/ StartsWith(statement, <<"U", "S", "E">>)

\* the authentication commands (cursor.py 62, 82)
SETINFO == <<"S", "E", "T", "I", "N", "F", "O">>
LOGIN == <<"L", "O", "G", "I", "N">>

\* the server answers the next complete command it was sent
CursorServerReply ==
    /\ sock = "open"
    /\ Contains(Unanswered, NL)
    /\ Len(Unanswered) >= Len(CommandLine) + CommandBody
    /\ whandled' = whandled + Len(CommandLine) + CommandBody
    /\ IF CommandName \in {EXECUTE, EXECUTE2}
       THEN /\ sent' = sent \o (IF Runs(CommandText) THEN script.exec
                                ELSE script.refuse) \o CRLF
            /\ served' = 0
       ELSE IF CommandName = METADATA
       THEN sent' = sent \o script.meta /\ UNCHANGED served
       ELSE IF CommandName = CONT
       THEN IF served < Len(script.batches)
            THEN /\ sent' = sent \o Framed(DATA, script.batches[served + 1])
                 /\ served' = served + 1
            ELSE sent' = sent \o script.last \o CRLF /\ UNCHANGED served
       ELSE IF CommandName = SET_FIELD_SEP
       THEN sent' = sent \o script.sep \o CRLF /\ UNCHANGED served
       ELSE IF CommandName = SET_RECORD_SEP
       THEN sent' = sent \o script.rsep \o CRLF /\ UNCHANGED served
       ELSE IF CommandName = IMPORT
       THEN sent' = sent \o script.load \o CRLF /\ UNCHANGED served
       ELSE IF CommandName = SETINFO
       THEN sent' = sent \o script.auth1 \o CRLF /\ UNCHANGED served
       ELSE IF CommandName = LOGIN
       THEN \* the welcome of the first server and, unless it refused, the
            \* welcome of the second
            /\ sent' = sent \o script.auth1 \o CRLF
                           \o (IF script.auth1[1] = "+" THEN script.auth2 \o CRLF
                               ELSE <<>>)
            /\ UNCHANGED served
       ELSE sent' = sent \o ERR \o CRLF /\ UNCHANGED served
    /\ UNCHANGED <<rpos, wsent, nerr, script>>
    /\ UNCHANGED <<sockVars, frameVars, connVars, ctlVars>>
    /\ UNCHANGED <<cursorVars, cpc, frame, ops, load_file>>

----------------------------------------------------------------------------
(* SpecCursor: a statement is executed and its rows are fetched through a  *)
(* Cursor made for a connected transport, Cursor(socket), with no timeout. *)
(* The replies arrive in segments that end with a line or with the last   *)
(* byte sent so far, or the peer closes or resets the connection; a        *)
(* command is accepted by the socket whole, or the send fails with         *)
(* ECONNRESET.                                                             *)

\* The caller goes on after a result, the end of the results or a refused
\* statement, and gives up after any other exception.
GoesOn ==
    IF ops = <<>> THEN TRUE
    ELSE ops[Len(ops)].ret.exc \in {"", "StopIteration", "ProgrammingError"}

SELECT_1 == <<"S", "E", "L", "E", "C", "T", " ", "1">>

DROP_T == <<"D", "R", "O", "P", " ", "t">>
Statements == { SELECT_1, DROP_T }

ExecReplies == { OK \o <<SP, "0">> }
Refusals == { <<"-", "E", "R", "R", " ", "n", "o">> }
MetaReplies == { Framed(OK, json_dumps(<<"n", "t">>)) }
BatchLists == { <<>>, << json_dumps(<<"1", "2">>) >>,
                << json_dumps(<<"1">>), json_dumps(<<"2">>) >>,
                << json_dumps(<<>>) >> }

InitCursor ==
    /\ InitSocketOnly
    /\ NewCursor
    /\ load_file = <<>>
    /\ served = 0
    /\ timeout = NoTimeout
    /\ sent = <<>>

CursorScripts ==
    [exec : ExecReplies, refuse : Refusals, meta : MetaReplies,
     batches : BatchLists, last : {OK}, sep : {OK}, rsep : {OK}, load : {OK}]

TestExecute ==
    /\ Len(ops) < MaxOps /\ GoesOn
    /\ \E operation \in Statements : execute(operation)

TestExecute1 ==
    /\ Len(ops) < MaxOps /\ GoesOn
    /\ \E operation \in Statements : execute1(operation)

TestFetchone ==
    /\ ops # <<>> /\ Len(ops) < MaxOps /\ GoesOn
    /\ fetchone

TestFetchall ==
    /\ ops # <<>> /\ Len(ops) < MaxOps /\ GoesOn
    /\ fetchall

NextCursor ==
    \/ TestExecute
    \/ TestExecute1
    \/ TestFetchone
    \/ TestFetchall
    \/ execute_read
    \/ execute_status
    \/ execute1_sent
    \/ _get_description_read
    \/ _get_description_status
    \/ _get_description_payload
    \/ _read_data_read
    \/ _read_data_line
    \/ _read_data_payload
    \/ fetchall_read
    \/ fetchall_line
    \/ fetchall_payload
    \/ CursorServerReply
    \/ RecvSegment
    \/ RecvEOF
    \/ RecvReset
    \/ SendWhole
    \/ SendReset

InitFetch ==
    /\ InitCursor
    /\ script \in CursorScripts

SpecCursor == InitFetch /\ [][NextCursor]_vars

----------------------------------------------------------------------------
(* Cursor: fetching the rows of a statement. *)

\* the rows of the batches, in the order the server sends them
RECURSIVE RowsOf(_)
RowsOf(batches) ==
    IF batches = <<>> THEN <<>>
    ELSE json_loads(Head(batches)) \o RowsOf(Tail(batches))

\* the operation o is over and every transport call it made returned
Undisturbed(o) ==
    /\ o.ret.exc # "pending"
    /\ \A i \in 1..Len(o.trace) : o.trace[i].exc = ""

\* the commands the operation o sent, in order
RECURSIVE SentIn(_)
SentIn(trace) ==
    IF trace = <<>> THEN <<>>
    ELSE IF Head(trace).op = "send_message"
    THEN <<Head(trace).text>> \o SentIn(Tail(trace))
    ELSE SentIn(Tail(trace))

\* C13: after an execute that returned, when the server answers the CONT ALL
\* requests with its k batches and then +OK, however the replies are cut
\* into chunks, and the transport does not fail, fetchall returns the rows
\* of all batches in order and sends k + 1 requests, none after +OK; a
\* fetchone that follows and is answered +OK raises StopIteration.
C13_FetchallReturnsEveryBatch ==
    (/\ Len(ops) >= 2
     /\ ops[1].name = "execute" /\ ops[1].ret.exc = ""
     /\ ops[2].name = "fetchall" /\ Undisturbed(ops[2]))
        => /\ ops[2].ret = Outcome("", RowsOf(script.batches))
           /\ SentIn(ops[2].trace)
                  = [i \in 1..(Len(script.batches) + 1) |-> CONT_ALL \o CRLF]
           /\ (Len(ops) >= 3 /\ ops[3].name = "fetchone" /\ Undisturbed(ops[3]))
                  => ops[3].ret.exc = "StopIteration"

\* C17: the protocol is strictly request-then-response: within an operation
\* no request is sent while an earlier request has had no reply read, so no
\* two sends follow each other without a read in between.
C17_RequestThenResponse ==
    \A i \in 1..(Len(calls) - 1) :
        ~ /\ calls[i].op = "send_message" /\ Returned(calls[i])
          /\ calls[i + 1].op = "send_message"

\* the server's status line says success, and the message it carries
Succeeds(status) == status # <<>> /\ status[1] = "+"
MessageOf(status) == Strip(ParamOf(status, <<>>))

\* C18: execute sends EXECUTE2 and reads one status.  On a failure status it
\* raises ProgrammingError with the server's message, sends no METADATA and
\* leaves the description as it was; on success it sends METADATA, reads
\* its status and payload, leaves the first-fetch flag false and returns
\* the success message.
C18_ExecuteStatusThenMetadata ==
    (/\ Len(ops) = 1 /\ cpc = "idle"
     /\ ops[1].name = "execute" /\ Undisturbed(ops[1]))
        => LET o == ops[1]
               request == Statement(EXECUTE2, o.arg \o <<";">>)
               status == IF Runs(o.arg) THEN script.exec ELSE script.refuse
           IN IF ~Succeeds(status)
              THEN /\ o.ret.exc = "ProgrammingError"
                   /\ Strip(o.ret.val) = MessageOf(status)
                   /\ SentIn(o.trace) = <<request>>
                   /\ description = o.description0
              ELSE /\ o.ret.exc = ""
                   /\ Strip(o.ret.val) = MessageOf(status)
                   /\ SentIn(o.trace) = <<request, METADATA \o CRLF>>
                   /\ [i \in 1..Len(o.trace) |-> o.trace[i].op]
                          = <<"send_message", "read_message", "send_message",
                              "read_message", "read">>
                   /\ ~is_initial_execution

\* the operation o is a fetch that needs data of the server
NeedsData(o) ==
    \/ o.name = "fetchall"
    \/ o.name = "fetchone" /\ o.buffer0 = <<>>

\* the request a fetch sends for more rows
Continuation(o) == IF o.name = "fetchall" THEN CONT_ALL \o CRLF ELSE CONT \o CRLF

\* the operation o is a statement
IsStatement(o) == o.name \in {"execute", "execute1"}

\* the last statement before the i-th operation
StatementOf(i) ==
    CHOOSE j \in 1..(i - 1) :
        IsStatement(ops[j]) /\ \A k \in (j + 1)..(i - 1) : ~IsStatement(ops[k])

\* the i-th operation is the first fetch that needs data after an execute1
\* that returned
FirstAfterExecute1(i) ==
    LET j == StatementOf(i)
    IN /\ ops[j].name = "execute1" /\ ops[j].ret.exc = ""
       /\ \A k \in (j + 1)..(i - 1) : ~NeedsData(ops[k])

\* the first-fetch flag after the i-th operation
FlagAfter(i) == IF i < Len(ops) THEN ops[i + 1].flag0 ELSE is_initial_execution

\* C19: the first fetch that needs data after execute1 starts by reading,
\* without sending CONT or CONT ALL, and clears the first-fetch flag; every
\* later fetch that needs data, and every such fetch after execute, sends
\* its continuation request before it reads.
C19_FirstFetchSkipsCont ==
    \A i \in 2..Len(ops) :
        (~IsStatement(ops[i]) /\ NeedsData(ops[i]) /\ ops[i].ret.exc # "pending")
            => LET t == ops[i].trace
               IN IF FirstAfterExecute1(i)
                  THEN /\ t # <<>> /\ t[1].op = "readline"
                       /\ ~FlagAfter(i)
                  ELSE /\ t # <<>> /\ t[1].op = "send_message"
                       /\ t[1].text = Continuation(ops[i])
                       /\ Len(t) >= 2 => t[2].op = "readline"

\* the rows the fetchone calls among the operations 2..n returned
RECURSIVE RowsFetched(_)
RowsFetched(n) ==
    IF n < 2 THEN <<>>
    ELSE RowsFetched(n - 1) \o (IF ops[n].ret.exc = "" THEN ops[n].ret.val ELSE <<>>)

\* C20: successive fetchone calls after an execute deliver the rows in the
\* order the server sent them, each once, and contact the server only when
\* the buffer is empty; when no row is left, also when the server sends a
\* batch with no rows, fetchone raises StopIteration and no other error.
\* (Stated for runs in which no transport call raises and every payload
\* was decoded.)
C20_FetchoneInOrderThenStops ==
    \A i \in 2..Len(ops) :
        (/\ ops[1].name = "execute" /\ ops[1].ret.exc = ""
         /\ \A j \in 2..i : /\ ops[j].name = "fetchone" /\ Undisturbed(ops[j])
                              /\ ops[j].ret.exc # "JSONDecodeError")
            => /\ ops[i].ret.exc \in {"", "StopIteration"}
               /\ ops[i].buffer0 # <<>> => ops[i].trace = <<>>
               /\ RowsFetched(i) = Take(RowsOf(script.batches), Len(RowsFetched(i)))

----------------------------------------------------------------------------
(* SpecStatement: execute is given a text, and then the text it sent.      *)

\* the texts execute is given: a statement or another word, in upper, lower
\* or mixed case, with and without blanks around it and a terminator
Words ==
    { SELECT_1, <<"s", "e", "l", "e", "c", "t", " ", "1">>,
      <<"S", "e", "l", "e", "c", "t", " ", "1">>, DROP_T,
      <<"/", "*", "+", " ", "x">>, <<"B", "E", "G", "I", "N">>,
      <<"b", "e", "g", "i", "n">> }
Texts ==
    { before \o word \o after :
        before \in {<<>>, <<SP>>}, word \in Words,
        after \in {<<>>, <<";">>, <<SP>>, <<";", SP>>} }

\* the text that went out with the first command of the operation o
TextSent(o) == SplitTail(o.trace[1].text, NL)

InitStatement ==
    /\ InitCursor
    /\ script \in CursorScripts
    /\ script.batches = <<>>

TestStatement ==
    /\ ops = <<>>
    /\ \E operation \in Texts : execute(operation)

TestStatementAgain ==
    /\ Len(ops) = 1 /\ cpc = "idle"
    /\ ops[1].trace # <<>>
    /\ execute(TextSent(ops[1]))

NextStatement ==
    \/ TestStatement
    \/ TestStatementAgain
    \/ execute_read
    \/ execute_status
    \/ _get_description_read
    \/ _get_description_status
    \/ _get_description_payload
    \/ CursorServerReply
    \/ RecvData
    \/ SendWhole

SpecStatement == InitStatement /\ [][NextStatement]_vars

\* the statement keywords of the claim
Keywords ==
    { <<"S", "E", "L", "E", "C", "T">>, <<"U", "P", "D", "A", "T", "E">>,
      <<"I", "N", "S", "E", "R", "T">>, <<"D", "E", "L", "E", "T", "E">>,
      <<"C", "R", "E", "A", "T", "E">>, <<"D", "R", "O", "P">>,
      <<"A", "L", "T", "E", "R">>, <<"/", "*", "+">> }

\* the rule read on the text as given
AsGiven(text) ==
    IF (\E kw \in Keywords : StartsWith(text, kw)) /\ ~EndsWith(text, <<";">>)
    THEN text \o <<";">> ELSE text

\* the rule read on the text in upper case without the blanks around it;
\* the ';' goes to the end of the text as given
CaseAndBlanksIgnored(text) ==
    LET t == Strip(Upper(text))
    IN IF (\E kw \in Keywords : StartsWith(t, kw)) /\ ~EndsWith(t, <<";">>)
       THEN text \o <<";">> ELSE text

\* the command execute sent went out whole, with the text given by rule
Sends(o, text) ==
    o.trace # <<>> => o.trace[1].text = Statement(EXECUTE2, text)

\* C12 as stated: execute sends the text with one ';' appended when the
\* text does not end with ';' and starts with one of the keywords, and
\* sends every other text unchanged.
C12_TerminatorOnTextAsGiven ==
    \A i \in 1..Len(ops) : Sends(ops[i], AsGiven(ops[i].arg))

\* C12 amended: execute sends the text with one ';' appended when the text,
\* put in upper case and stripped of surrounding whitespace, does not end
\* with ';' and starts with one of the keywords, and sends every other text
\* unchanged; given the text it sent, it sends that text unchanged.
C12_TerminatorInsertion ==
    /\ \A i \in 1..Len(ops) : Sends(ops[i], CaseAndBlanksIgnored(ops[i].arg))
    /\ (Len(ops) = 2 /\ ops[2].trace # <<>>) => TextSent(ops[2]) = TextSent(ops[1])

\* a statement in lower case went out with the terminator, and went out
\* unchanged when given again
C12_Witness ==
    /\ Len(ops) = 2 /\ ops[2].trace # <<>>
    /\ ops[1].arg = <<"s", "e", "l", "e", "c", "t", " ", "1">>
    /\ TextSent(ops[1]) = ops[1].arg \o <<";">>
    /\ TextSent(ops[2]) = ops[2].arg

----------------------------------------------------------------------------
(* Fatal errors of the transport. *)

\* the call c ended with a fatal error: the peer disconnected (EOF or
\* ECONNRESET) or the socket took no byte of a send
IsFatal(c) == c.ret.exc \in {"SocketDisconnectException", "SocketDataSendException"}

\* C16: once a fatal error was raised out of an operation the connection is
\* closed: the transport holds no open socket, so that no later operation
\* sends or receives on it.
C16_FatalErrorClosesConnection ==
    \A i \in 1..Len(calls) : IsFatal(calls[i]) => sock = "none"

----------------------------------------------------------------------------
(* SpecLoad: a file is loaded through a Cursor made for a connected        *)
(* transport, after set_buffer_size or with the buffer size of __init__.   *)
(* The socket accepts a text whole or without its last byte, or the send   *)
(* fails with ECONNRESET or with another socket error.                     *)

\* a file of n characters
FileOf(n) == [i \in 1..n |-> DecimalDigits[(i % 10) + 1]]
Files == {Missing} \cup { FileOf(n) : n \in 0..MaxFile }

ColumnLists ==
    { [none |-> TRUE, names |-> <<>>], [none |-> FALSE, names |-> <<>>],
      [none |-> FALSE, names |-> << <<"a">> >>],
      [none |-> FALSE, names |-> << <<"a">>, <<"b">> >>] }

LoadScripts ==
    [exec : ExecReplies, refuse : Refusals, meta : MetaReplies, batches : {<<>>},
     last : {OK}, sep : {OK} \cup Refusals, rsep : {OK} \cup Refusals,
     load : {OK} \cup Refusals]

InitLoad ==
    /\ InitSocketOnly
    /\ NewCursor
    /\ load_file \in Files
    /\ served = 0
    /\ timeout = NoTimeout
    /\ sent = <<>>
    /\ script \in LoadScripts

TestSetBufferSize ==
    /\ ops = <<>> /\ buffer_size = 1024
    /\ \E size \in 1..MaxChunk : set_buffer_size(size)

TestLoad ==
    /\ ops = <<>>
    /\ \E columns \in ColumnLists :
          load(<<"t">>, columns, <<>>, <<>>, <<",">>, <<NL>>, 0, FALSE)

NextLoad ==
    \/ TestSetBufferSize
    \/ TestLoad
    \/ _set_field_sep_read
    \/ _set_field_sep_status
    \/ _set_record_sep_read
    \/ _set_record_sep_status
    \/ load_control
    \/ load_chunk
    \/ load_status
    \/ CursorServerReply
    \/ RecvData
    \/ SendWhole
    \/ SendAllButLast
    \/ SendReset
    \/ SendOSError

SpecLoad == InitLoad /\ [][NextLoad]_vars

\* the transport calls of the load so far
LoadTrace == IF ops[1].ret.exc = "pending" THEN Trace(calls) ELSE ops[1].trace

\* the column list joined by the record separator; NULL when there is none
Joined(columns, rsep) ==
    IF columns.none \/ columns.names = <<>> THEN NULL
    ELSE JoinWith(rsep, columns.names)

\* the IMPORT header of the load o for a control payload of ctl_size
HeaderOf(o, ctl_size) ==
    ImportHeader(o.arg.table, o.arg.key, o.arg.partition, ctl_size,
                 Len(load_file), o.arg.load_option)

RECURSIVE Chunks(_, _)
Chunks(file, size) ==
    IF Len(file) <= size THEN (IF file = <<>> THEN <<>> ELSE <<file>>)
    ELSE <<SubSeq(file, 1, size)>> \o Chunks(SubSeq(file, size + 1, Len(file)), size)

\* s is a prefix of t
IsPrefix(s, t) == Len(s) <= Len(t) /\ SubSeq(t, 1, Len(s)) = s

\* the texts of the sends in trace that another transport call followed
RECURSIVE Followed(_)
Followed(trace) ==
    IF Len(trace) <= 1 THEN <<>>
    ELSE (IF Head(trace).op = "send_message" THEN Head(trace).text ELSE <<>>)
             \o Followed(Tail(trace))

\* C15: from the IMPORT header on, load sends the header, the control
\* payload and the file's pieces in file order, one send each and none
\* twice, and reads the one status only after all of them; a send that
\* failed is the last thing load does, so every send that another
\* transport call followed went out whole; a failure status makes
\* ProgrammingError.
C15_LoadSendsInOrderAndStopsOnFailure ==
    (ops # <<>> /\ ops[1].name = "load" /\ Len(LoadTrace) >= 5)
        => LET o == ops[1]
               T == LoadTrace
               payload == Joined(o.arg.columns, o.arg.record_sep)
               expected == <<HeaderOf(o, Len(payload)), payload>>
                               \o Chunks(load_file, buffer_size)
               sends == SentIn(SubSeq(T, 5, Len(T)))
               reads == Len(T) - 4 - Len(sends)
           IN /\ IsPrefix(sends, expected)
              /\ IsPrefix(Followed(T), wsent)
              /\ reads <= 1
              /\ reads = 1 => sends = expected /\ T[Len(T)].op = "read_message"
              /\ o.ret.exc = "" => reads = 1 /\ Succeeds(script.load)
              /\ (reads = 1 /\ o.ret.exc # "pending" /\ Undisturbed(o))
                     => (o.ret.exc = "ProgrammingError" <=> ~Succeeds(script.load))

----------------------------------------------------------------------------
(* Cursor: a failure line in answer to a fetch. *)

\* the failure lines a server may end a result set with: the tag with a
\* message after it, and the tag alone
FailureLines == { <<"-", "E", "R", "R", " ", "n", "o">>, <<"-", "E", "R", "R">> }

\* a Cursor made for a connected transport; the server answers the request
\* after the last batch with a failure line
InitFetchError ==
    /\ InitCursor
    /\ script \in [exec : ExecReplies, refuse : Refusals, meta : MetaReplies,
                   batches : {<<>>, << json_dumps(<<"1">>) >>},
                   last : FailureLines, sep : {OK}, rsep : {OK}, load : {OK}]

SpecFetchError == InitFetchError /\ [][NextCursor]_vars

\* the text after the tag of a reply line ("" when the line is the tag alone)
TextAfterTag(line) ==
    IF Contains(line, SP) THEN Strip(SplitTail(line, SP)) ELSE <<>>

\* the number of payload reads in the transport calls of trace
RECURSIVE PayloadReads(_)
PayloadReads(trace) ==
    IF trace = <<>> THEN 0
    ELSE (IF Head(trace).op = "read" THEN 1 ELSE 0) + PayloadReads(Tail(trace))

\* C21: a fetchone or fetchall that follows a successful execute, that no
\* transport call disturbed and whose payloads all decoded, meets the
\* server's failure line after the batches it read: it raises
\* OperationalError carrying the text after the tag of that line (the empty
\* text when the line is the tag alone) and reads no payload for the line.
C21_FailureLineRaisesOperationalError ==
    (/\ Len(ops) >= 2 /\ ops[1].name = "execute" /\ ops[1].ret.exc = ""
     /\ ops[2].name \in {"fetchone", "fetchall"} /\ ops[2].ret.exc # "pending"
     /\ Undisturbed(ops[2]) /\ ops[2].ret.exc # "JSONDecodeError"
     /\ ~Succeeds(script.last)
     /\ (ops[2].name = "fetchone" => script.batches = <<>>))
        => /\ ops[2].ret = Outcome("OperationalError", TextAfterTag(script.last))
           /\ PayloadReads(ops[2].trace) = Len(script.batches)

----------------------------------------------------------------------------
(* Cursor: the separators of a load. *)

\* the status of SET_FIELD_SEP is back and _set_field_sep is over
FieldSepAnswered ==
    /\ ops # <<>> /\ ops[1].name = "load"
    /\ Len(LoadTrace) >= 2 /\ LoadTrace[2].exc = ""
    /\ cpc \notin {"field_sep_sent", "field_sep_status"}

\* the status of SET_RECORD_SEP is back and _set_record_sep is over
RecordSepAnswered ==
    /\ ops # <<>> /\ ops[1].name = "load"
    /\ Len(LoadTrace) >= 4 /\ LoadTrace[4].exc = ""
    /\ cpc \notin {"record_sep_sent", "record_sep_status"}

\* C22: once the server's status of SET_FIELD_SEP is read, field_sep is the
\* requested separator if the status is a success; if it is a failure the
\* load raised DataError and both separators are as they were.  The same for SET_RECORD_SEP and record_sep, field_sep
\* staying what _set_field_sep made it.
C22_SeparatorSetOnSuccessOnly ==
    /\ FieldSepAnswered =>
          IF Succeeds(script.sep)
          THEN field_sep = ops[1].arg.sep
          ELSE /\ ops[1].ret.exc = "DataError"
               /\ field_sep = <<>> /\ record_sep = <<>>
    /\ RecordSepAnswered =>
          IF Succeeds(script.rsep)
          THEN record_sep = ops[1].arg.record_sep /\ field_sep = ops[1].arg.sep
          ELSE /\ ops[1].ret.exc = "DataError"
               /\ record_sep = <<>> /\ field_sep = ops[1].arg.sep

\* the record separator was refused after the field separator was set
C22_Witness ==
    /\ RecordSepAnswered /\ Succeeds(script.sep) /\ ~Succeeds(script.rsep)
    /\ ops[1].ret.exc = "DataError"
    /\ field_sep = <<",">> /\ record_sep = <<>>

----------------------------------------------------------------------------
(* Cursor: the row buffer across fetches and statements. *)

\* C25: after a successful execute, whatever way fetchone and fetchall
\* calls follow each other (no transport call raising, every payload
\* decoded, every call returning or raising StopIteration), the rows they
\* returned are the rows the server sent, in its order and each once; when
\* a fetchall has returned, they are all the rows of the statement, the rows
\* that an earlier fetchone left in the buffer included.
C25_EveryRowOnceInOrder ==
    \A i \in 2..Len(ops) :
        (/\ ops[1].name = "execute" /\ ops[1].ret.exc = ""
         /\ \A j \in 2..i : /\ ops[j].name \in {"fetchone", "fetchall"}
                              /\ Undisturbed(ops[j])
                              /\ ops[j].ret.exc \in {"", "StopIteration", "pending"})
            => /\ IsPrefix(RowsFetched(i), RowsOf(script.batches))
               /\ (ops[i].name = "fetchall" /\ ops[i].ret.exc = "")
                      => RowsFetched(i) = RowsOf(script.batches)

\* C26: when execute or execute1 has returned, the row buffer is empty: the
\* cursor is idle with no row in it, and the operation called next finds no
\* row there, so that a fetchone has to ask the server for the rows of the
\* new statement.  (Stated for runs in which no earlier operation raised
\* anything but StopIteration and no transport call raised.)
C26_NoRowOfEarlierStatement ==
    \A i \in 1..Len(ops) :
        (/\ ops[i].name \in {"execute", "execute1"} /\ ops[i].ret.exc = ""
         /\ \A j \in 1..i : /\ ops[j].ret.exc \in {"", "StopIteration"}
                              /\ Undisturbed(ops[j]))
            => IF i = Len(ops) THEN buffer = <<>>
               ELSE ops[i + 1].buffer0 = <<>>

----------------------------------------------------------------------------
(* Connection: the sockets of a session in direct mode. *)

\* the transport calls made on the transport of the redirect target: those
\* after the readline of the first server's goodbye
OnTarget(i) == \E k \in 1..(i - 1) : calls[k].op = "readline"

\* the bytes that occur in s
Occurring(s) == { s[k] : k \in 1..Len(s) }

\* C24: the process never holds more than one open OS socket; between the
\* first server and the redirect target the session has no transport and
\* no open socket; the transport connected to the target starts with
\* nothing carried over, its first read finds nothing kept, and every byte
\* a call on it returns is a byte the target sent, whatever the first
\* transport had received and not handed out.
C24_OneSocketAndFreshTransport ==
    /\ os_open <= 1
    /\ (stage = 2 /\ step = "connect") => (os_open = 0 /\ conn_socket = "none")
    /\ (stage = 2 /\ step = "connected")
          => /\ remained_data = <<>> /\ received_data_list = <<>>
             /\ remaining_buffer_size = 0
    /\ \A i \in 1..Len(calls) :
          OnTarget(i)
             => /\ stage = 2
                /\ ~OnTarget(i - 1) => calls[i].rd0 = <<>> /\ calls[i].rpos0 = 0
                /\ Occurring(calls[i].ret.line) \subseteq Occurring(sent)

\* the goodbye of the first server was cut off by a reset, and the welcome
\* of the target was read from a transport with nothing carried over
C24_Witness ==
    /\ stage = 2 /\ os_open = 1 /\ sock = "open" /\ pc = "idle"
    /\ Len(calls) >= 2 /\ OnTarget(Len(calls))
    /\ calls[Len(calls) - 1].ret.exc = "SocketDisconnectException"
    /\ LastCall.op = "read_message" /\ LastCall.ret.exc = "" /\ LastCall.ret.ok
    /\ LastCall.rd0 = <<>> /\ LastCall.ret.line # <<>>

----------------------------------------------------------------------------
(* SpecAuth: Connection.cursor on a transport that is connected and        *)
(* welcomed, as _connect_server leaves it (connect.py 64-82).              *)

\* VERSION (connect.py 12), and the user, the password and the local
\* address of the runs
VERSION == <<"P", "y", "t", "h", "o", "n", "-", "M", "6", "-", "A", "P", "I", "-",
             "2", ".", "1">>
User == <<"u">>
Password == <<"p">>
LocalHost == <<"h">>

\* base64.b64encode(param.encode('utf-8')).decode('utf-8') (cursor.py 59,
\* 81) for the two parameters of the runs
b64encode_param(param) ==
    IF param = User \o <<",">> \o Password \o <<",">> \o VERSION
    THEN <<"d", "S", "x", "w", "L", "F", "B", "5", "d", "G", "h", "v", "b", "i",
           "1", "N", "N", "i", "1", "B", "U", "E", "k", "t", "M", "i", "4", "x">>
    ELSE <<"d", "S", "x", "w", "L", "G", "g", "s", "U", "H", "l", "0", "a", "G",
           "9", "u", "L", "U", "0", "2", "L", "U", "F", "Q", "S", "S", "0", "y",
           "L", "j", "E", "=">>

\* the command _set_info (58-62) sends in direct mode, _login (80-85) otherwise
AuthCommand(direct) ==
    IF direct
    THEN SETINFO \o <<SP>>
           \o b64encode_param(User \o <<",">> \o Password \o <<",">> \o LocalHost
                                  \o <<",">> \o VERSION) \o CRLF
    ELSE LOGIN \o <<SP>>
           \o b64encode_param(User \o <<",">> \o Password \o <<",">> \o VERSION) \o CRLF

\* database=None, or ""
NoDatabase == <<>>

\* f"USE {self.database};" (connect.py 116)
UseStatement(database) == <<"U", "S", "E", SP>> \o database \o <<";">>

\* Connection.cursor 107-113: the Cursor is made for the session's transport
\* (cursor.py 32-41) and _set_info (58-62) or _login (80-85) sends its command
cursor(direct, database) ==
    /\ cpc = "idle" /\ pc = "idle"
    /\ cursor_' = TRUE
    /\ Begin("cursor", [direct |-> direct, database |-> database])
    /\ send_message(AuthCommand(direct), 0)
    /\ cpc' = IF direct THEN "setinfo_sent" ELSE "login_sent"
    /\ UNCHANGED <<cursorVars, frame>>
    /\ UNCHANGED <<conn_socket, direct_mode_enabled, conn_timeout, target, closes,
                   os_open>>
    /\ UNCHANGED <<wireVars, serverVars, ctlVars, load_file, served>>

\* _set_info 62-65: read the status of SETINFO
_set_info_read ==
    /\ Back("setinfo_sent")
    /\ IF Failed THEN PassOn
       ELSE /\ readline("read_message", TRUE, 0)
            /\ cpc' = "setinfo_status"
            /\ UNCHANGED <<cursorVars, frame, ops>>
    /\ UNCHANGED outerVars

\* _set_info 65-70: the status is back
_set_info_status ==
    /\ Back("setinfo_status")
    /\ IF Failed THEN PassOn
       ELSE IF ~LastCall.ret.ok
       THEN Over("OperationalError", LastCall.ret.val) /\ UNCHANGED cursorVars
       ELSE Over("", <<>>) /\ UNCHANGED cursorVars
    /\ UNCHANGED outerVars

\* _login 85-88: read the first welcome
_login_read ==
    /\ Back("login_sent")
    /\ IF Failed THEN PassOn
       ELSE /\ readline("read_message", TRUE, 0)
            /\ cpc' = "login_welcome"
            /\ UNCHANGED <<cursorVars, frame, ops>>
    /\ UNCHANGED outerVars

\* a _login that is content with the first welcome
_login_one_welcome ==
    /\ Back("login_welcome")
    /\ IF Failed THEN PassOn
       ELSE IF ~LastCall.ret.ok
       THEN Over("OperationalError", LastCall.ret.val) /\ UNCHANGED cursorVars
       ELSE Over("", <<>>) /\ UNCHANGED cursorVars
    /\ UNCHANGED outerVars

\* _login 88-93: the first welcome is back; read the second
_login_welcome ==
    /\ Back("login_welcome")
    /\ IF Failed THEN PassOn
       ELSE IF ~LastCall.ret.ok
       THEN Over("OperationalError", LastCall.ret.val) /\ UNCHANGED cursorVars
       ELSE /\ readline("read_message", TRUE, 0)
            /\ cpc' = "login_status"
            /\ UNCHANGED <<cursorVars, frame, ops>>
    /\ UNCHANGED outerVars

\* _login 93-98: the second welcome is back
_login_status ==
    /\ Back("login_status")
    /\ IF Failed THEN PassOn
       ELSE IF ~LastCall.ret.ok
       THEN Over("OperationalError", LastCall.ret.val) /\ UNCHANGED cursorVars
       ELSE Over("", <<>>) /\ UNCHANGED cursorVars
    /\ UNCHANGED outerVars

\* Connection.cursor 115-116: the authentication returned and a database is
\* configured: execute(f"USE {self.database};")
cursor_use ==
    /\ Len(ops) = 1 /\ ops[1].name = "cursor" /\ ops[1].ret.exc = ""
    /\ ops[1].arg.database # NoDatabase
    /\ execute(UseStatement(ops[1].arg.database))

AuthReplies == { OK \o <<SP, "h", "i">>, <<"-", "E", "R", "R", " ", "n", "o">> }

InitAuth ==
    /\ InitCursor
    /\ script \in [exec : ExecReplies \cup Refusals, refuse : Refusals,
                   meta : MetaReplies, batches : {<<>>}, last : {OK}, sep : {OK},
                   rsep : {OK}, load : {OK}, auth1 : AuthReplies,
                   auth2 : AuthReplies]

TestCursor ==
    /\ ops = <<>>
    /\ \E direct \in BOOLEAN, database \in {NoDatabase, <<"d">>} :
          cursor(direct, database)

NextAuth ==
    \/ TestCursor
    \/ _set_info_read
    \/ _set_info_status
    \/ _login_read
    \/ _login_welcome
    \/ _login_status
    \/ cursor_use
    \/ execute_read
    \/ execute_status
    \/ _get_description_read
    \/ _get_description_status
    \/ _get_description_payload
    \/ CursorServerReply
    \/ RecvData
    \/ RecvEOF
    \/ RecvReset
    \/ SendWhole
    \/ SendReset

SpecAuth == InitAuth /\ [][NextAuth]_vars

\* the transport calls of cursor() so far
AuthTrace == IF ops[1].ret.exc = "pending" THEN Trace(calls) ELSE ops[1].trace

\* the status replies the server has for the authentication command
AuthStatuses(direct) ==
    IF direct THEN <<script.auth1>> ELSE <<script.auth1, script.auth2>>

\* C23: cursor() sends one authentication command, SETINFO in direct mode
\* and LOGIN otherwise, and nothing else; it reads the status replies one
\* by one, one for SETINFO and two for LOGIN, up to the first failure; when
\* no transport call raised it returns if all of them are successes and
\* raises OperationalError with the message of the first failure if not;
\* USE <database>; is executed only after cursor's authentication returned,
\* every status being a success, and only for a configured database.
C23_CursorAuthenticatesThenUses ==
    (ops # <<>> /\ ops[1].name = "cursor")
        => LET o == ops[1]
               T == AuthTrace
               statuses == AuthStatuses(o.arg.direct)
               reads == Len(SelectSeq(T, LAMBDA c : c.op = "read_message"))
               refused == { k \in 1..Len(statuses) : ~Succeeds(statuses[k]) }
               first == CHOOSE k \in refused : \A j \in refused : k <= j
           IN /\ SentIn(T) = << AuthCommand(o.arg.direct) >>
              /\ reads <= Len(statuses)
              /\ Undisturbed(o)
                    => IF refused = {}
                       THEN o.ret.exc = "" /\ reads = Len(statuses)
                       ELSE /\ o.ret.exc = "OperationalError"
                            /\ Strip(o.ret.val) = MessageOf(statuses[first])
                            /\ reads = first
              /\ Len(ops) >= 2
                    => /\ o.ret.exc = "" /\ refused = {}
                       /\ o.arg.database # NoDatabase
                       /\ ops[2].name = "execute"
                       /\ ops[2].arg = UseStatement(o.arg.database)
                       /\ ops[2].ret.exc # "pending"
                             => TextSent(ops[2]) = UseStatement(o.arg.database)

\* LOGIN was answered by a success and then a failure, which cursor() raised;
\* no USE followed although a database is configured
C23_Witness ==
    /\ ops # <<>> /\ ops[1].name = "cursor" /\ ~ops[1].arg.direct
    /\ ops[1].arg.database # NoDatabase
    /\ Succeeds(script.auth1) /\ ~Succeeds(script.auth2)
    /\ Undisturbed(ops[1]) /\ ops[1].ret.exc = "OperationalError"
    /\ Len(ops[1].trace) = 3 /\ Len(ops) = 1

====
